---- MODULE Spec2Model ----
(***************************************************************************)
(* A model of the job scraper: the Seek scraper (src/src/scraper.py) and   *)
(* the LinkedIn scraper (src/src/linkedin_scraper.py).                     *)
(*                                                                         *)
(* Three specifications share the module:                                  *)
(*   Spec        the scrape_jobs / scrape_jobs_async pipeline              *)
(*   SpecCards   parse_job_cards and the selector cascades (pure)          *)
(*   SpecDetail  _parse_job_detail_page and the merge policy (pure)        *)
(***************************************************************************)
EXTENDS Integers, Sequences, FiniteSets, TLC

(***************************************************************************)
(* Text.  A Python str is a sequence of one-character strings; Python's    *)
(* None is the distinguished value None.                                   *)
(***************************************************************************)
None == <<"None">>

SP == " "
TAB == "\t"
LF == "\n"
CR == "\r"
FF == "\f"
NBSP == "nbsp"

\* str.isspace() / the regex class \s on str patterns
IsSpace(c) == c \in {SP, TAB, LF, CR, FF, NBSP}

\* the line boundaries of str.splitlines()
IsLineBreak(c) == c \in {LF, CR, FF}

\* Python truthiness of an Optional[str]
Truthy(v) == v # None /\ v # <<>>

RECURSIVE LStrip(_)
LStrip(s) == IF s = <<>> THEN <<>>
             ELSE IF IsSpace(Head(s)) THEN LStrip(Tail(s)) ELSE s

RECURSIVE RStrip(_)
RStrip(s) == IF s = <<>> THEN <<>>
             ELSE IF IsSpace(s[Len(s)]) THEN RStrip(SubSeq(s, 1, Len(s) - 1)) ELSE s

\* str.strip()
Strip(s) == RStrip(LStrip(s))

\* re.sub(r"\s+", " ", s): every maximal run of whitespace becomes one space
RECURSIVE CollapseSpace(_)
CollapseSpace(s) ==
    IF s = <<>> THEN <<>>
    ELSE IF IsSpace(Head(s))
         THEN <<SP>> \o CollapseSpace(LStrip(s))
         ELSE <<Head(s)>> \o CollapseSpace(Tail(s))

\* LinkedInScraper._clean_text
CleanText(value) == Strip(CollapseSpace(value))

\* str.splitlines(): "\r\n" is one boundary; no trailing empty line
RECURSIVE SplitLinesFrom(_, _)
SplitLinesFrom(s, cur) ==
    IF s = <<>> THEN (IF cur = <<>> THEN <<>> ELSE <<cur>>)
    ELSE IF Head(s) = CR /\ Len(s) >= 2 /\ s[2] = LF
         THEN <<cur>> \o SplitLinesFrom(Tail(Tail(s)), <<>>)
    ELSE IF IsLineBreak(Head(s))
         THEN <<cur>> \o SplitLinesFrom(Tail(s), <<>>)
         ELSE SplitLinesFrom(Tail(s), Append(cur, Head(s)))

SplitLines(s) == SplitLinesFrom(s, <<>>)

\* sep.join(parts)
RECURSIVE Join(_, _)
Join(parts, sep) ==
    IF parts = <<>> THEN <<>>
    ELSE IF Len(parts) = 1 THEN parts[1]
    ELSE parts[1] \o sep \o Join(Tail(parts), sep)

\* the non-empty strings of a sequence of strings, in order
RECURSIVE DropEmpty(_)
DropEmpty(seq) ==
    IF seq = <<>> THEN <<>>
    ELSE (IF Head(seq) # <<>> THEN <<Head(seq)>> ELSE <<>>) \o DropEmpty(Tail(seq))

\* LinkedInScraper._clean_multiline_text
CleanMultilineText(value) ==
    LET split == SplitLines(value)
        lines == [i \in 1..Len(split) |-> CleanText(split[i])]
    IN Join(DropEmpty(lines), <<LF>>)

\* re.sub(r"\r\n?", "\n", text)
RECURSIVE ReplaceCR(_)
ReplaceCR(s) ==
    IF s = <<>> THEN <<>>
    ELSE IF Head(s) = CR /\ Len(s) >= 2 /\ s[2] = LF THEN <<LF>> \o ReplaceCR(Tail(Tail(s)))
    ELSE IF Head(s) = CR THEN <<LF>> \o ReplaceCR(Tail(s))
    ELSE <<Head(s)>> \o ReplaceCR(Tail(s))

\* text.replace("\u00a0", " ")
ReplaceNbsp(s) == [i \in 1..Len(s) |-> IF s[i] = NBSP THEN SP ELSE s[i]]

\* the length of the longest prefix of s made of characters of the set cls
RECURSIVE RunLen(_, _)
RunLen(s, cls) == IF s = <<>> \/ Head(s) \notin cls THEN 0 ELSE 1 + RunLen(Tail(s), cls)

AllSpace == {SP, TAB, LF, CR, FF, NBSP}

\* re.sub(r"[ \t]+", " ", text)
RECURSIVE CollapseBlank(_)
CollapseBlank(s) ==
    IF s = <<>> THEN <<>>
    ELSE IF Head(s) \in {SP, TAB}
         THEN <<SP>> \o CollapseBlank(SubSeq(s, RunLen(s, {SP, TAB}) + 1, Len(s)))
         ELSE <<Head(s)>> \o CollapseBlank(Tail(s))

\* re.sub(r"\n\s+", "\n", text)
RECURSIVE StripAfterNewline(_)
StripAfterNewline(s) ==
    IF s = <<>> THEN <<>>
    ELSE IF Head(s) = LF /\ RunLen(Tail(s), AllSpace) >= 1
         THEN <<LF>> \o StripAfterNewline(SubSeq(s, RunLen(Tail(s), AllSpace) + 2, Len(s)))
         ELSE <<Head(s)>> \o StripAfterNewline(Tail(s))

\* the last index k in 2..n with s[k] = "\n", or 0
LastNewline(s, n) ==
    LET ks == {k \in 2..n : s[k] = LF}
    IN IF ks = {} THEN 0 ELSE CHOOSE k \in ks : \A m \in ks : m <= k

\* re.sub(r"\s+\n", "\n", text): greedy \s+ backtracks to the run's last newline
RECURSIVE StripBeforeNewline(_)
StripBeforeNewline(s) ==
    IF s = <<>> THEN <<>>
    ELSE IF IsSpace(Head(s)) /\ LastNewline(s, RunLen(s, AllSpace)) > 0
         THEN <<LF>> \o StripBeforeNewline(SubSeq(s, LastNewline(s, RunLen(s, AllSpace)) + 1, Len(s)))
         ELSE <<Head(s)>> \o StripBeforeNewline(Tail(s))

\* re.sub(r"\n{3,}", "\n\n", text)
RECURSIVE CollapseNewlines(_)
CollapseNewlines(s) ==
    IF s = <<>> THEN <<>>
    ELSE IF RunLen(s, {LF}) >= 3
         THEN <<LF, LF>> \o CollapseNewlines(SubSeq(s, RunLen(s, {LF}) + 1, Len(s)))
         ELSE <<Head(s)>> \o CollapseNewlines(Tail(s))

\* _normalize_whitespace with the non-breaking spaces replaced after the
\* collapsing steps instead of before them
NormalizeWhitespaceNbspLast(text) ==
    IF text = <<>> THEN <<>>
    ELSE Strip(ReplaceNbsp(CollapseNewlines(StripBeforeNewline(StripAfterNewline(
             CollapseBlank(ReplaceCR(text)))))))

\* JobScraper._normalize_whitespace
NormalizeWhitespace(text) ==
    IF text = <<>> THEN <<>>
    ELSE Strip(CollapseNewlines(StripBeforeNewline(StripAfterNewline(
             CollapseBlank(ReplaceNbsp(ReplaceCR(text)))))))

(***************************************************************************)
(* Parsed HTML.  A document (BeautifulSoup's tree) is a sequence of nodes  *)
(* in document order; node 0 is the soup itself.  A node is a tag          *)
(* (an element) or a NavigableString (tag "#text", its string in text).    *)
(* attrs maps the attribute names present to their values; the class       *)
(* attribute is the set cls.  A string is a sequence of atoms: an atom is  *)
(* one whitespace character or a run of non-whitespace characters.         *)
(***************************************************************************)
TEXT == "#text"

El(parent, tag, cls, attrs) ==
    [parent |-> parent, tag |-> tag, cls |-> cls, attrs |-> attrs, text |-> <<>>]

Str(parent, text) ==
    [parent |-> parent, tag |-> TEXT, cls |-> {}, attrs |-> <<>>, text |-> text]

NoAttrs == <<>>

\* Tag.get(name)
Get(node, name) == IF name \in DOMAIN node.attrs THEN node.attrs[name] ELSE None

\* whether node a is a proper ancestor of node i (0 is the soup)
RECURSIVE IsAncestor(_, _, _)
IsAncestor(doc, a, i) ==
    IF i = 0 THEN FALSE
    ELSE doc[i].parent = a \/ IsAncestor(doc, a, doc[i].parent)

\* the tags and strings below element e, in document order
Descendants(doc, e) == {i \in 1..Len(doc) : IsAncestor(doc, e, i)}

Children(doc, e) == {i \in 1..Len(doc) : doc[i].parent = e}

\* a set of node indices as a sequence in document order
RECURSIVE InOrder(_)
InOrder(S) ==
    IF S = {} THEN <<>>
    ELSE LET m == CHOOSE i \in S : \A j \in S : i <= j
         IN <<m>> \o InOrder(S \ {m})

\* the first node of S in document order, 0 when there is none
First(S) == IF S = {} THEN 0 ELSE CHOOSE i \in S : \A j \in S : i <= j

(* A selector: tag and cls ("" for any), an attribute test                 *)
(*   op "="  [attr="val"],  op "*=" [attr*="val"],  op "has" attr=True,    *)
(*   op ""   no test,                                                      *)
(* and, for the descendant combinator "A B", the ancestor's tag and class. *)
Sel(tag, cls, op, attr, val) ==
    [tag |-> tag, cls |-> cls, op |-> op, attr |-> attr, val |-> val,
     atag |-> "", acls |-> ""]

Under(atag, acls, sel) == [sel EXCEPT !.atag = atag, !.acls = acls]

\* whether a substring test [attr*="val"] holds: val is one atom of the value
HasAtom(value, atom) == \E k \in 1..Len(value) : value[k] = atom

SimpleMatch(node, sel) ==
    /\ node.tag # TEXT
    /\ sel.tag = "" \/ node.tag = sel.tag
    /\ sel.cls = "" \/ sel.cls \in node.cls
    /\ CASE sel.op = "=" -> Get(node, sel.attr) = sel.val
         [] sel.op = "*=" -> Get(node, sel.attr) # None /\ HasAtom(Get(node, sel.attr), sel.val)
         [] sel.op = "has" -> Truthy(Get(node, sel.attr))
         [] OTHER -> TRUE

Matches(doc, i, sel) ==
    /\ SimpleMatch(doc[i], sel)
    /\ \/ sel.atag = "" /\ sel.acls = ""
       \/ \E a \in 1..Len(doc) :
             /\ IsAncestor(doc, a, i)
             /\ doc[a].tag # TEXT
             /\ sel.atag = "" \/ doc[a].tag = sel.atag
             /\ sel.acls = "" \/ sel.acls \in doc[a].cls

\* element.select(selector) / find_all: the matches below e, in document order
Select(doc, e, sel) == InOrder({i \in Descendants(doc, e) : Matches(doc, i, sel)})

\* element.select_one(selector) / element.find(...): the first match, 0 for None
SelectOne(doc, e, sel) == First({i \in Descendants(doc, e) : Matches(doc, i, sel)})

\* the strings below e (or e itself, a string), stripped, the empty ones dropped
StrippedStrings(doc, e) ==
    LET idx == InOrder({i \in Descendants(doc, e) : doc[i].tag = TEXT})
    IN DropEmpty([k \in 1..Len(idx) |-> Strip(doc[idx[k]].text)])

\* element.get_text(sep, strip=True)
GetText(doc, e, sep) == Join(StrippedStrings(doc, e), sep)

\* Tag.__eq__ of bs4, which list membership ("card not in cards") uses:
\* same name, same attributes and recursively equal contents
RECURSIVE TagEq(_, _, _)
TagEq(doc, i, j) ==
    \/ i = j
    \/ /\ doc[i].tag = doc[j].tag
       /\ doc[i].cls = doc[j].cls
       /\ doc[i].attrs = doc[j].attrs
       /\ doc[i].text = doc[j].text
       /\ LET ci == InOrder(Children(doc, i))
              cj == InOrder(Children(doc, j))
          IN /\ Len(ci) = Len(cj)
             /\ \A k \in 1..Len(ci) : TagEq(doc, ci[k], cj[k])

\* "card in cards"
InList(doc, card, cards) == \E k \in 1..Len(cards) : TagEq(doc, card, cards[k])

\* for card in matches: if card not in cards: cards.append(card)
RECURSIVE AppendNew(_, _, _)
AppendNew(doc, cards, matches) ==
    IF matches = <<>> THEN cards
    ELSE AppendNew(doc,
                   IF InList(doc, Head(matches), cards) THEN cards
                   ELSE Append(cards, Head(matches)),
                   Tail(matches))

(***************************************************************************)
(* URLs.  A URL is a string whose atoms are split at the places the        *)
(* scrapers' patterns look at: the site root is one atom, a fixed path or  *)
(* query prefix such as "/job/" is one atom, an identifier is one atom.    *)
(***************************************************************************)
SEEK_ROOT_URL == "https://www.seek.com.au"
ROOT_URL == "https://www.linkedin.com"

Roots == {SEEK_ROOT_URL, ROOT_URL, "https://other.example"}

\* atoms made of digits only (\d+)
DigitAtoms == {"101", "202", "303"}

\* atoms made of word characters and dashes ([\w-]+)
WordAtoms == DigitAtoms \cup {"dev-9"}

\* urllib.parse.urljoin(root, href) for an absolute or a root-relative href
UrlJoin(root, href) ==
    IF href # <<>> /\ Head(href) \in Roots THEN href ELSE <<root>> \o href

\* re.search(prefix + "(<class>+)", url): the group of the leftmost match
SearchAfter(url, prefix, class) ==
    LET ks == {k \in 1..(Len(url) - 1) : url[k] = prefix /\ url[k + 1] \in class}
    IN IF url = None \/ ks = {} THEN None
       ELSE <<url[(CHOOSE k \in ks : \A m \in ks : k <= m) + 1]>>

(***************************************************************************)
(* JobListing (scraper.py).  extra holds the attributes the LinkedIn       *)
(* detail parser sets on the instance beside the dataclass fields.         *)
(***************************************************************************)
JobListing(source) ==
    [id |-> None, title |-> None, company |-> None, company_url |-> None,
     company_profile_url |-> None, location |-> None, work_type |-> None,
     work_arrangement |-> None, salary |-> None, description |-> None,
     posted_at |-> None, apply_url |-> None, job_url |-> None,
     source |-> source, extra |-> <<>>]

\* the None that _parse_job_card returns for a card it skips
NoJob == JobListing(None)

\* Python's "a or b" on Optional[str]
Or(a, b) == IF Truthy(a) THEN a ELSE b

(***************************************************************************)
(* Seek: card extraction (scraper.py)                                      *)
(***************************************************************************)
AUTO == "data-automation"

\* find(tag, attrs={"data-automation": key}); tag "" when no tag is given
AutoSel(tag, key) == Sel(tag, "", "=", AUTO, <<key>>)

\* JobScraper._find_by_data_automation: the first key that matches any
\* element decides; 0 for None
RECURSIVE FindByDataAutomation(_, _, _, _)
FindByDataAutomation(doc, element, automation_keys, tag) ==
    IF automation_keys = <<>> THEN 0
    ELSE LET found == SelectOne(doc, element, AutoSel(tag, Head(automation_keys)))
         IN IF found # 0 THEN found
            ELSE FindByDataAutomation(doc, element, Tail(automation_keys), tag)

\* JobScraper._extract_text
ExtractText(doc, card, automation_keys) ==
    LET element == FindByDataAutomation(doc, card, automation_keys, "")
    IN IF element # 0 /\ GetText(doc, element, <<>>) # <<>>
       THEN GetText(doc, element, <<>>)
       ELSE None

\* JobScraper._extract_job_url
SeekExtractJobUrl(doc, card) ==
    LET titled == SelectOne(doc, card, AutoSel("a", "jobTitle"))
        link == IF titled # 0 THEN titled
                ELSE SelectOne(doc, card, Sel("a", "", "has", "href", <<>>))
    IN IF link = 0 THEN None
       ELSE IF ~Truthy(Get(doc[link], "href")) THEN None
       ELSE UrlJoin(SEEK_ROOT_URL, Get(doc[link], "href"))

\* JobScraper._extract_job_id (of a card)
SeekExtractJobId(doc, card) ==
    IF Truthy(Get(doc[card], "data-job-id")) THEN Get(doc[card], "data-job-id")
    ELSE IF Truthy(Get(doc[card], "data-search-sol-job-id"))
         THEN Get(doc[card], "data-search-sol-job-id")
    ELSE IF Truthy(Get(doc[card], "data-job-id-hash"))
         THEN Get(doc[card], "data-job-id-hash")
    ELSE None

\* JobScraper._derive_job_id_from_url: re.search(r"/job/([\w-]+)", job_url)
DeriveJobIdFromUrl(job_url) ==
    IF ~Truthy(job_url) THEN None ELSE SearchAfter(job_url, "/job/", WordAtoms)

\* the JobListing that _parse_job_card builds for a card with the given title
SeekCardListing(doc, card, title) ==
    LET job_url == SeekExtractJobUrl(doc, card)
    IN [JobListing(<<"Seek">>) EXCEPT
          !.id = Or(SeekExtractJobId(doc, card), DeriveJobIdFromUrl(job_url)),
          !.title = title,
          !.company = ExtractText(doc, card, <<"jobCompany", "job-company">>),
          !.location = ExtractText(doc, card, <<"jobLocation", "job-location">>),
          !.salary = ExtractText(doc, card, <<"jobSalary", "job-salary">>),
          !.posted_at = ExtractText(doc, card,
                            <<"jobListingDate", "jobCardDate", "listing-date">>),
          !.description = ExtractText(doc, card,
                            <<"jobShortDescription", "job-short-description">>),
          !.job_url = job_url]

\* the card turned into a listing whether it has a title or not
SeekParseJobCardKeepsUntitled(doc, card) ==
    SeekCardListing(doc, card, ExtractText(doc, card, <<"jobTitle", "job-title">>))

\* JobScraper._parse_job_card; NoJob when the card has no title
SeekParseJobCard(doc, card) ==
    LET title == ExtractText(doc, card, <<"jobTitle", "job-title">>)
    IN IF ~Truthy(title) THEN NoJob ELSE SeekCardListing(doc, card, title)

\* for selector in selectors: for card in soup.select(selector): ...
RECURSIVE CollectCards(_, _, _)
CollectCards(doc, cards, selectors) ==
    IF selectors = <<>> THEN cards
    ELSE CollectCards(doc, AppendNew(doc, cards, Select(doc, 0, Head(selectors))),
                      Tail(selectors))

\* "if job: job_listings.append(job)" over the parsed cards
RECURSIVE DropNone(_)
DropNone(jobs) ==
    IF jobs = <<>> THEN <<>>
    ELSE (IF Head(jobs) # NoJob THEN <<Head(jobs)>> ELSE <<>>) \o DropNone(Tail(jobs))

SeekCardSelectors ==
    <<AutoSel("", "normalJob"), AutoSel("", "premiumJob"), AutoSel("", "job-card")>>

\* the card elements JobScraper.parse_job_cards iterates over
SeekCards(html) ==
    LET cards == CollectCards(html.nodes, <<>>, SeekCardSelectors)
    IN IF cards = <<>>
       THEN Select(html.nodes, 0, Sel("article", "", "", "", <<>>))
       ELSE cards

\* parse_job_cards giving a list with a None in it for empty markup
SeekParseJobCardsNoneForEmpty(html) ==
    IF html.empty THEN <<NoJob>>
    ELSE LET cards == SeekCards(html)
         IN DropNone([k \in 1..Len(cards) |-> SeekParseJobCard(html.nodes, cards[k])])

\* JobScraper.parse_job_cards
SeekParseJobCards(html) ==
    IF html.empty THEN <<>>
    ELSE LET cards == SeekCards(html)
         IN DropNone([k \in 1..Len(cards) |-> SeekParseJobCard(html.nodes, cards[k])])

(***************************************************************************)
(* LinkedIn: posted-date normalisation (linkedin_scraper.py).  In a date   *)
(* string a calendar date ("2024-01-05"), a time of day ("T10:00:00"), a   *)
(* UTC offset, a number and a word are one atom each.                      *)
(***************************************************************************)
DateAtoms == {"2024-01-05"}
TimeAtoms == {"T10:00:00"}
OffsetAtoms == {"+10:00", "Z"}
NumberAtoms == {"0", "1", "3", "24"}

NumberOf(a) == CASE a = "0" -> 0 [] a = "1" -> 1 [] a = "3" -> 3 [] a = "24" -> 24

\* str.lower() of one atom
LowerAtom(a) ==
    CASE a = "New" -> "new" [] a = "Days" -> "days"
      [] a = "Requirements" -> "requirements" [] a = "Skills" -> "skills"
      [] OTHER -> a

Lower(text) == [k \in 1..Len(text) |-> LowerAtom(text[k])]

MinuteUnits == {"minute", "minutes", "min", "mins"}
HourUnits == {"hour", "hours", "hr", "hrs"}
DayUnits == {"day", "days"}
WeekUnits == {"week", "weeks"}
MonthUnits == {"month", "months"}
YearUnits == {"year", "years"}
AllUnits == MinuteUnits \cup HourUnits \cup DayUnits \cup WeekUnits \cup MonthUnits \cup YearUnits

\* atoms made of word characters: a word boundary \b cannot lie between two
WordLike(a) == a \in NumberAtoms \/ a \in AllUnits \/ a \in {"ago", "new", "posted", "just", "within", "the", "past", "yesterday", "soon"}

\* LinkedInScraper._timedelta_for_unit, in seconds; 0 stands for None too
\* (the caller tests "if delta", and timedelta(0) is false as None is)
TimedeltaForUnit(unit, value) ==
    CASE unit \in MinuteUnits -> 60 * value
      [] unit \in HourUnits -> 3600 * value
      [] unit \in DayUnits -> 86400 * value
      [] unit \in WeekUnits -> 604800 * value
      [] unit \in MonthUnits -> 86400 * 30 * value
      [] unit \in YearUnits -> 86400 * 365 * value
      [] OTHER -> 0

\* (now - delta).isoformat(timespec="seconds"), delta in seconds
IsoNowMinus(delta) == <<"now-", ToString(delta), "s">>

\* the index of the first atom after k that is not whitespace (Len + 1 at the end)
RECURSIVE SkipSpace(_, _)
SkipSpace(text, k) ==
    IF k > Len(text) THEN k
    ELSE IF IsSpace(text[k]) THEN SkipSpace(text, k + 1) ELSE k

\* whether (\d+)\s*(<unit>)\b matches at atom k, for the units of the set units
UnitMatchAt(text, k, units, boundary) ==
    LET u == SkipSpace(text, k + 1)
    IN /\ text[k] \in NumberAtoms
       /\ u <= Len(text)
       /\ text[u] \in units
       /\ ~boundary \/ u = Len(text) \/ ~WordLike(text[u + 1])

\* the seconds of the leftmost match of (\d+)\s*(<unit>) among the atoms from
\* index from on, -1 when there is no match
UnitSearch(text, from, units, boundary) ==
    LET ks == {k \in from..Len(text) : UnitMatchAt(text, k, units, boundary)}
        k == CHOOSE i \in ks : \A j \in ks : i <= j
    IN IF ks = {} THEN -1
       ELSE TimedeltaForUnit(text[SkipSpace(text, k + 1)], NumberOf(text[k]))

\* the index after the leftmost "within the past", 0 when the phrase is absent
AfterWithinThePast(text) ==
    LET ks == {k \in 1..(Len(text) - 4) :
                  SubSeq(text, k, k + 4) = <<"within", SP, "the", SP, "past">>}
    IN IF ks = {} THEN 0 ELSE (CHOOSE i \in ks : \A j \in ks : i <= j) + 5

\* the seconds of r"within the past\s*(\d+)\s*(day|days|week|weeks)", -1 for no match
ApproxSearch(text) ==
    LET a == AfterWithinThePast(text)
        k == SkipSpace(text, a)
    IN IF a = 0 \/ k > Len(text) THEN -1
       ELSE IF UnitMatchAt(text, k, DayUnits \cup WeekUnits, FALSE)
            THEN TimedeltaForUnit(text[SkipSpace(text, k + 1)], NumberOf(text[k]))
            ELSE -1

\* the absolute formats: strptime with "%Y-%m-%d", "%Y-%m-%dT%H:%M:%S%z",
\* "%Y-%m-%dT%H:%M:%S", then datetime.fromisoformat; None when none parses
ParseAbsolute(text) ==
    CASE Len(text) = 1 /\ text[1] \in DateAtoms -> <<text[1], "T00:00:00", "+00:00">>
      [] Len(text) = 3 /\ text[1] \in DateAtoms /\ text[2] \in TimeAtoms
             /\ text[3] \in OffsetAtoms
           -> <<text[1], text[2], IF text[3] = "Z" THEN "+00:00" ELSE text[3]>>
      [] Len(text) = 2 /\ text[1] \in DateAtoms /\ text[2] \in TimeAtoms
           -> <<text[1], text[2], "+00:00">>
      [] OTHER -> None

\* LinkedInScraper._parse_posted_timestamp
ParsePostedTimestamp(raw) ==
    LET text == Strip(raw)
        normalized == Lower(text)
        delta == UnitSearch(normalized, 1, AllUnits, TRUE)
        approx == ApproxSearch(normalized)
    IN IF text = <<>> THEN None
       ELSE IF ParseAbsolute(text) # None THEN ParseAbsolute(text)
       ELSE IF normalized \in {<<"new">>, <<"just", SP, "posted">>} THEN IsoNowMinus(0)
       ELSE IF normalized \in {<<"within", SP, "the", SP, "past", SP, "24", SP, "hours">>,
                               <<"past", SP, "24", SP, "hours">>}
            THEN IsoNowMinus(12 * 3600)
       ELSE IF HasAtom(normalized, "yesterday") THEN IsoNowMinus(86400)
       ELSE IF delta > 0 THEN IsoNowMinus(delta)
       ELSE IF approx > 0 THEN IsoNowMinus(approx \div 2)
       ELSE None

\* the first value whose timestamp parses, as that timestamp (None when none does)
RECURSIVE FirstParsed(_)
FirstParsed(values) ==
    IF values = <<>> THEN None
    ELSE IF Truthy(Head(values)) /\ ParsePostedTimestamp(Head(values)) # None
         THEN ParsePostedTimestamp(Head(values))
         ELSE FirstParsed(Tail(values))

\* the first value that is not blank, stripped (None when all are)
RECURSIVE FirstStripped(_)
FirstStripped(values) ==
    IF values = <<>> THEN None
    ELSE IF Truthy(Head(values)) /\ Strip(Head(values)) # <<>>
         THEN Strip(Head(values))
         ELSE FirstStripped(Tail(values))

\* a text that is no date dropped
NormalizePostedAtDropsText(values) == FirstParsed(values)

\* LinkedInScraper._normalize_posted_at
NormalizePostedAt(values) ==
    IF FirstParsed(values) # None THEN FirstParsed(values) ELSE FirstStripped(values)

(***************************************************************************)
(* LinkedIn: card extraction (linkedin_scraper.py)                         *)
(***************************************************************************)
\* the CSS selectors "tag.cls", "tag" and "tag[attr='val']"
Css(tag, cls) == Sel(tag, cls, "", "", <<>>)
CssAttr(tag, attr, val) == Sel(tag, "", "=", attr, <<val>>)

\* LinkedInScraper._select_text: the first selector whose first match has text
RECURSIVE SelectText(_, _, _, _)
SelectText(doc, element, selectors, multiline) ==
    IF selectors = <<>> THEN None
    ELSE LET node == SelectOne(doc, element, Head(selectors))
             text == GetText(doc, node, IF multiline THEN <<LF>> ELSE <<SP>>)
         IN IF node # 0 /\ text # <<>>
            THEN (IF multiline THEN CleanMultilineText(text) ELSE CleanText(text))
            ELSE SelectText(doc, element, Tail(selectors), multiline)

\* LinkedInScraper._extract_job_url
LinkedInExtractJobUrl(doc, card) ==
    LET full == SelectOne(doc, card, Css("a", "base-card__full-link"))
        listed == SelectOne(doc, card, Css("a", "job-card-list__title"))
        link == IF full # 0 THEN full
                ELSE IF listed # 0 THEN listed
                ELSE SelectOne(doc, card, Sel("a", "", "has", "href", <<>>))
    IN IF link = 0 THEN None
       ELSE IF ~Truthy(Get(doc[link], "href")) THEN None
       ELSE UrlJoin(ROOT_URL, Get(doc[link], "href"))

\* _extract_job_id with the query parameters tried before the path
LinkedInExtractJobIdQueryFirst(job_url) ==
    IF ~Truthy(job_url) THEN None
    ELSE IF SearchAfter(job_url, "currentJobId=", DigitAtoms) # None
         THEN SearchAfter(job_url, "currentJobId=", DigitAtoms)
    ELSE IF SearchAfter(job_url, "jobId=", DigitAtoms) # None
         THEN SearchAfter(job_url, "jobId=", DigitAtoms)
    ELSE SearchAfter(job_url, "/jobs/view/", DigitAtoms)

\* LinkedInScraper._extract_job_id: the first pattern, in the order
\* /jobs/view/(\d+), currentJobId=(\d+), jobId=(\d+), that matches
LinkedInExtractJobId(job_url) ==
    IF ~Truthy(job_url) THEN None
    ELSE IF SearchAfter(job_url, "/jobs/view/", DigitAtoms) # None
         THEN SearchAfter(job_url, "/jobs/view/", DigitAtoms)
    ELSE IF SearchAfter(job_url, "currentJobId=", DigitAtoms) # None
         THEN SearchAfter(job_url, "currentJobId=", DigitAtoms)
    ELSE SearchAfter(job_url, "jobId=", DigitAtoms)

\* LinkedInScraper._extract_company_url
ExtractCompanyUrl(doc, element) ==
    LET link == SelectOne(doc, element, Sel("a", "", "*=", "href", "/company/"))
    IN IF link = 0 THEN None
       ELSE IF ~Truthy(Get(doc[link], "href")) THEN None
       ELSE UrlJoin(ROOT_URL, Get(doc[link], "href"))

\* LinkedInScraper._extract_company_logo
ExtractCompanyLogo(doc, element) ==
    LET art == SelectOne(doc, element, Css("img", "artdeco-entity-image"))
        image == IF art # 0 THEN art ELSE SelectOne(doc, element, Css("img", ""))
        src == Or(Get(doc[image], "data-delayed-url"),
                  Or(Get(doc[image], "data-src"), Get(doc[image], "src")))
    IN IF image = 0 THEN None
       ELSE IF ~Truthy(src) THEN None
       ELSE UrlJoin(ROOT_URL, src)

\* LinkedInScraper._parse_job_card; NoJob when the card has no title
LinkedInParseJobCard(doc, card) ==
    LET title == SelectText(doc, card,
                    <<Css("h3", "base-search-card__title"),
                      Css("h3", "job-search-card__title"),
                      Css("a", "job-card-list__title")>>, FALSE)
        job_url == LinkedInExtractJobUrl(doc, card)
        time_element == SelectOne(doc, card, Css("time", ""))
    IN IF ~Truthy(title) THEN NoJob
       ELSE [JobListing(<<"LinkedIn">>) EXCEPT
               !.id = LinkedInExtractJobId(job_url),
               !.title = title,
               !.company = SelectText(doc, card,
                               <<Css("h4", "base-search-card__subtitle"),
                                 Css("a", "job-search-card__subtitle"),
                                 Css("span", "job-card-container__primary-description")>>,
                               FALSE),
               !.location = SelectText(doc, card,
                               <<Css("span", "job-search-card__location"),
                                 Css("li", "job-card-container__metadata-item")>>, FALSE),
               !.work_arrangement = SelectText(doc, card,
                               <<Css("span", "job-card-container__metadata-item--workplace-type"),
                                 Css("span", "job-search-card__metadata-item")>>, FALSE),
               !.posted_at = IF time_element = 0 THEN None
                             ELSE NormalizePostedAt(<<Get(doc[time_element], "datetime"),
                                                      Get(doc[time_element], "title"),
                                                      GetText(doc, time_element, <<>>)>>),
               !.job_url = job_url,
               !.apply_url = job_url,
               !.company_url = ExtractCompanyUrl(doc, card),
               !.company_profile_url = ExtractCompanyLogo(doc, card)]

LinkedInCardSelectors ==
    <<Under("ul", "jobs-search__results-list", Css("li", "")),
      Css("div", "base-card"),
      Css("div", "job-search-card")>>

\* the card elements LinkedInScraper.parse_job_cards iterates over
LinkedInCards(html) == CollectCards(html.nodes, <<>>, LinkedInCardSelectors)

\* LinkedInScraper.parse_job_cards
LinkedInParseJobCards(html) ==
    IF html.empty THEN <<>>
    ELSE LET cards == LinkedInCards(html)
         IN DropNone([k \in 1..Len(cards) |-> LinkedInParseJobCard(html.nodes, cards[k])])

(***************************************************************************)
(* Seek: detail enrichment (scraper.py).  A detail page carries, beside    *)
(* its nodes, the payloads of its <script type="application/ld+json">      *)
(* blocks: each is blank, or unparsable, or a list of items.  An item is   *)
(* a JSON object given by its "@type" and the fields the scraper reads     *)
(* ("" for the type of an item that is no object).  location and salary    *)
(* stand for what _format_schema_location and _format_schema_salary make   *)
(* of the item's jobLocation and baseSalary.                               *)
(***************************************************************************)
NoOrg == [present |-> FALSE, name |-> None, sameAs |-> None, url |-> None, logo |-> None]

Org(name, sameAs, url, logo) ==
    [present |-> TRUE, name |-> name, sameAs |-> sameAs, url |-> url, logo |-> logo]

SchemaItem(type) ==
    [type |-> type, identifier |-> None, title |-> None, name |-> None,
     hiringOrganization |-> NoOrg, location |-> None, employmentType |-> None,
     jobLocationType |-> None, workHours |-> None, salary |-> None,
     description |-> None, datePosted |-> None, applicationLink |-> None,
     contactUrl |-> None, contactEmail |-> None, url |-> None]

\* the None that _extract_job_schema returns
NoSchema == SchemaItem("")

Script(blank, valid, items) == [blank |-> blank, valid |-> valid, items |-> items]

\* the first item of a list that is a JobPosting or JobPostingSeries object
RECURSIVE FirstJobPosting(_)
FirstJobPosting(items) ==
    IF items = <<>> THEN NoSchema
    ELSE IF Head(items).type \in {"JobPosting", "JobPostingSeries"} THEN Head(items)
    ELSE FirstJobPosting(Tail(items))

\* JobScraper._extract_job_schema
RECURSIVE ExtractJobSchema(_)
ExtractJobSchema(scripts) ==
    IF scripts = <<>> THEN NoSchema
    ELSE IF Head(scripts).blank \/ ~Head(scripts).valid THEN ExtractJobSchema(Tail(scripts))
    ELSE IF FirstJobPosting(Head(scripts).items) # NoSchema
         THEN FirstJobPosting(Head(scripts).items)
    ELSE ExtractJobSchema(Tail(scripts))

\* the atoms that are HTML tags inside a schema description
TagAtoms == {"<p>", "</p>"}

\* the strings between the tags of an HTML fragment, in order
RECURSIVE FragmentStrings(_, _)
FragmentStrings(text, cur) ==
    IF text = <<>> THEN <<cur>>
    ELSE IF Head(text) \in TagAtoms THEN <<cur>> \o FragmentStrings(Tail(text), <<>>)
    ELSE FragmentStrings(Tail(text), Append(cur, Head(text)))

\* BeautifulSoup(description).get_text("\n", strip=True)
FragmentText(text) ==
    LET parts == FragmentStrings(text, <<>>)
    IN Join(DropEmpty([k \in 1..Len(parts) |-> Strip(parts[k])]), <<LF>>)

\* JobScraper._clean_description_text
CleanDescriptionText(doc, element) == NormalizeWhitespace(GetText(doc, element, <<LF>>))

\* "if value and not job.field: job.field = value"
FillIfAbsent(current, value) == IF Truthy(value) /\ ~Truthy(current) THEN value ELSE current

\* JobScraper._apply_job_schema_data
ApplyJobSchemaData(job, schema) ==
    LET org == schema.hiringOrganization
        logo_url == org.logo
        description ==
            IF Truthy(schema.description) /\ ~Truthy(job.description)
            THEN (IF \E k \in 1..Len(schema.description) : schema.description[k] \in TagAtoms
                  THEN NormalizeWhitespace(FragmentText(schema.description))
                  ELSE NormalizeWhitespace(schema.description))
            ELSE job.description
        apply_url == IF Truthy(schema.applicationLink) THEN schema.applicationLink
                     ELSE Or(schema.contactUrl, schema.contactEmail)
    IN [job EXCEPT
          !.id = FillIfAbsent(job.id, schema.identifier),
          !.title = Or(job.title, Or(schema.title, Or(schema.name, job.title))),
          !.company = IF org.present THEN Or(job.company, Or(org.name, job.company))
                      ELSE job.company,
          !.company_url = IF org.present
                          THEN FillIfAbsent(job.company_url, Or(org.sameAs, org.url))
                          ELSE job.company_url,
          !.company_profile_url = IF org.present
                                  THEN FillIfAbsent(job.company_profile_url, logo_url)
                                  ELSE job.company_profile_url,
          !.location = FillIfAbsent(job.location, schema.location),
          !.work_type = FillIfAbsent(job.work_type, schema.employmentType),
          !.work_arrangement = FillIfAbsent(job.work_arrangement,
                                            Or(schema.jobLocationType, schema.workHours)),
          !.salary = FillIfAbsent(job.salary, schema.salary),
          !.description = description,
          !.posted_at = FillIfAbsent(job.posted_at, schema.datePosted),
          !.apply_url = FillIfAbsent(job.apply_url, apply_url),
          !.job_url = FillIfAbsent(job.job_url, schema.url)]

\* "value = extract(...); if value: job.field = value"
SetIfFound(current, value) == IF Truthy(value) THEN value ELSE current

\* the attribute attr of the first tag-element with one of the keys, joined to
\* the site root: "if link and link.get(attr): job.field = urljoin(ROOT, ...)"
SeekLinkAttr(doc, keys, tag, attr, current) ==
    LET link == FindByDataAutomation(doc, 0, keys, tag)
    IN IF link # 0 /\ Truthy(Get(doc[link], attr))
       THEN UrlJoin(SEEK_ROOT_URL, Get(doc[link], attr))
       ELSE current

\* JobScraper._parse_job_detail_page
SeekParseJobDetailPage(job, html) ==
    LET doc == html.nodes
        schema == ExtractJobSchema(html.scripts)
        j1 == IF schema # NoSchema THEN ApplyJobSchemaData(job, schema) ELSE job
        found == FindByDataAutomation(doc, 0,
                     <<"jobAdDetails", "job-detail-description", "jobAdContent">>, "")
        description_element ==
            IF found # 0 THEN found
            ELSE SelectOne(doc, 0, Sel("", "", "=", "id", <<"job-details">>))
        canonical == SelectOne(doc, 0, Sel("link", "", "=", "rel", <<"canonical">>))
        j2 == [j1 EXCEPT
                 !.title = SetIfFound(@, ExtractText(doc, 0,
                               <<"job-detail-title", "jobTitle", "job-title">>)),
                 !.company = SetIfFound(@, ExtractText(doc, 0,
                               <<"job-detail-company-name", "jobCompany", "company-name">>)),
                 !.company_url = SeekLinkAttr(doc, <<"job-detail-company-name", "jobCompany">>,
                                              "a", "href", @),
                 !.company_profile_url = SeekLinkAttr(doc, <<"jobCompanyLogo", "company-logo">>,
                                                      "img", "src", @),
                 !.location = SetIfFound(@, ExtractText(doc, 0,
                               <<"job-detail-location", "jobLocation", "location">>)),
                 !.work_type = SetIfFound(@, ExtractText(doc, 0,
                               <<"job-detail-work-type", "work-type">>)),
                 !.work_arrangement = SetIfFound(@, ExtractText(doc, 0,
                               <<"job-detail-work-arrangements", "job-detail-work-mode",
                                 "work-arrangements">>)),
                 !.salary = SetIfFound(@, ExtractText(doc, 0,
                               <<"job-detail-salary", "jobSalary", "salary">>)),
                 !.posted_at = SetIfFound(@, ExtractText(doc, 0,
                               <<"job-detail-date", "jobListingDate", "listing-date">>)),
                 !.description = IF description_element # 0
                                 THEN CleanDescriptionText(doc, description_element)
                                 ELSE @,
                 !.apply_url = SeekLinkAttr(doc,
                                   <<"jobdetail-applybutton", "job-detail-apply", "apply-button">>,
                                   "a", "href", @)]
        j3 == IF ~Truthy(j2.id)
              THEN [j2 EXCEPT !.id = Or(ExtractText(doc, 0, <<"job-detail-id">>),
                                        DeriveJobIdFromUrl(j2.job_url))]
              ELSE j2
    IN IF html.empty THEN job
       ELSE IF ~Truthy(j3.job_url) /\ canonical # 0 /\ Truthy(Get(doc[canonical], "href"))
            THEN [j3 EXCEPT !.job_url = Get(doc[canonical], "href")]
            ELSE j3

(***************************************************************************)
(* LinkedIn: detail enrichment (linkedin_scraper.py)                       *)
(***************************************************************************)
HeadingTags == {"h2", "h3", "h4"}

\* heading_tag.next_siblings: the later children of the heading's parent
NextSiblings(doc, h) == InOrder({i \in Children(doc, doc[h].parent) : i > h})

\* the text parts collected from the siblings up to the next heading tag
RECURSIVE ContentParts(_, _)
ContentParts(doc, siblings) ==
    IF siblings = <<>> THEN <<>>
    ELSE LET sib == Head(siblings)
         IN IF doc[sib].tag = TEXT
            THEN (IF Strip(doc[sib].text) # <<>> THEN <<Strip(doc[sib].text)>> ELSE <<>>)
                 \o ContentParts(doc, Tail(siblings))
            ELSE IF doc[sib].tag \in HeadingTags THEN <<>>
            ELSE (IF GetText(doc, sib, <<LF>>) # <<>> THEN <<GetText(doc, sib, <<LF>>)>>
                  ELSE <<>>)
                 \o ContentParts(doc, Tail(siblings))

\* the section text of heading h: "\n".join(clean(part) for part in content_parts)
SectionText(doc, h) ==
    LET parts == ContentParts(doc, NextSiblings(doc, h))
    IN Join([k \in 1..Len(parts) |-> CleanMultilineText(parts[k])], <<LF>>)

\* the loop over the headings of the page, in document order
RECURSIVE SectionFrom(_, _, _)
SectionFrom(doc, heading_tags, headings) ==
    IF heading_tags = <<>> THEN None
    ELSE IF Lower(GetText(doc, Head(heading_tags), <<>>)) \in headings
            /\ SectionText(doc, Head(heading_tags)) # <<>>
         THEN SectionText(doc, Head(heading_tags))
    ELSE SectionFrom(doc, Tail(heading_tags), headings)

\* LinkedInScraper._extract_section_by_heading
ExtractSectionByHeading(doc, headings) ==
    SectionFrom(doc, InOrder({i \in 1..Len(doc) : doc[i].tag \in HeadingTags}), headings)

RequirementHeadings ==
    {<<"qualifications">>, <<"requirements">>, <<"what", SP, "you'll", SP, "need">>,
     <<"skills">>}

BenefitHeadings == {<<"benefits">>, <<"what", SP, "we", SP, "offer">>, <<"perks">>}

OFFSITE == "public_jobs_apply-link-offsite"

\* the href of the first of two links that exists, joined to the site root
LinkedInLinkHref(doc, first, second) ==
    LET a == SelectOne(doc, 0, first)
        link == IF a # 0 THEN a ELSE SelectOne(doc, 0, second)
    IN IF link # 0 /\ Truthy(Get(doc[link], "href"))
       THEN UrlJoin(ROOT_URL, Get(doc[link], "href"))
       ELSE None

\* LinkedInScraper._extract_apply_url
ExtractApplyUrl(doc) ==
    LinkedInLinkHref(doc, CssAttr("a", "data-tracking-control-name", OFFSITE),
                     Css("a", "topcard__link"))

\* LinkedInScraper._extract_company_detail_url
ExtractCompanyDetailUrl(doc) ==
    LinkedInLinkHref(doc, Css("a", "topcard__org-name-link"),
                     CssAttr("a", "data-control-name", "company_link"))

TestId(tag, val) == CssAttr(tag, "data-test-id", val)

\* LinkedInScraper._parse_job_detail_page
LinkedInParseJobDetailPage(job, html) ==
    LET doc == html.nodes
        posted_at == SelectText(doc, 0,
                        <<Css("span", "posted-time-ago__text"),
                          Css("span", "jobs-unified-top-card__posted-date")>>, FALSE)
        j1 == [job EXCEPT
                 !.description = SetIfFound(@, SelectText(doc, 0,
                        <<Css("div", "show-more-less-html__markup"),
                          Css("section", "description__text"),
                          Css("div", "jobs-description__content"),
                          Css("div", "description__text")>>, TRUE)),
                 !.work_type = SetIfFound(@, SelectText(doc, 0,
                        <<TestId("li", "job-details-work-type"),
                          TestId("li", "job-details-employment-type"),
                          TestId("li", "job-details-job-type")>>, FALSE)),
                 !.work_arrangement = SetIfFound(@, SelectText(doc, 0,
                        <<TestId("li", "job-details-workplace-type"),
                          Css("span", "jobs-unified-top-card__workplace-type")>>, FALSE)),
                 !.salary = SetIfFound(@, SelectText(doc, 0,
                        <<TestId("li", "job-details-salary"),
                          TestId("span", "salary"),
                          Css("div", "jobs-unified-top-card__salary-info")>>, FALSE)),
                 !.posted_at = IF Truthy(posted_at)
                               THEN SetIfFound(@, NormalizePostedAt(<<posted_at>>))
                               ELSE @,
                 !.apply_url = SetIfFound(@, ExtractApplyUrl(doc)),
                 !.company_url = SetIfFound(@, ExtractCompanyDetailUrl(doc)),
                 !.company_profile_url = SetIfFound(@, ExtractCompanyLogo(doc, 0)),
                 !.extra =
                    [company_description |-> SelectText(doc, 0,
                        <<Css("section", "jobs-company__company-details"),
                          Css("div", "jobs-company__company-description"),
                          TestId("div", "about-company")>>, TRUE),
                     requirements |-> ExtractSectionByHeading(doc, RequirementHeadings),
                     benefits |-> ExtractSectionByHeading(doc, BenefitHeadings),
                     seniority_level |-> SelectText(doc, 0,
                        <<TestId("li", "job-details-seniority"),
                          TestId("li", "job-details-experience")>>, FALSE),
                     application_method |-> SelectText(doc, 0,
                        <<CssAttr("button", "data-tracking-control-name", OFFSITE),
                          Css("button", "jobs-apply-button"),
                          CssAttr("a", "data-tracking-control-name", OFFSITE)>>, FALSE)]]
    IN IF html.empty THEN job
       ELSE IF ~Truthy(j1.id) THEN [j1 EXCEPT !.id = LinkedInExtractJobId(j1.job_url)]
       ELSE j1

(***************************************************************************)
(* Seek: the salary of the structured data (scraper.py).  A value of the   *)
(* JSON is absent (None), an integer, a float with two decimals held as    *)
(* its hundredths, or a string.                                            *)
(***************************************************************************)
NoValue == [kind |-> "none", n |-> 0, s |-> ""]
IntValue(n) == [kind |-> "int", n |-> n, s |-> ""]
FloatValue(hundredths) == [kind |-> "float", n |-> hundredths, s |-> ""]
StrValue(s) == [kind |-> "str", n |-> 0, s |-> s]

\* the truth value of a JSON value: None, 0, 0.0 and "" are false
ValueTruthy(v) ==
    CASE v.kind = "none" -> FALSE
      [] v.kind = "str" -> v.s # ""
      [] OTHER -> v.n # 0

\* three digits, two digits, with leading zeros
Pad3(n) == IF n < 10 THEN <<"00", ToString(n)>>
           ELSE IF n < 100 THEN <<"0", ToString(n)>> ELSE <<ToString(n)>>
Pad2(n) == IF n < 10 THEN <<"0", ToString(n)>> ELSE <<ToString(n)>>

\* f"{n:,}" of an integer n >= 0
RECURSIVE Grouped(_)
Grouped(n) ==
    IF n < 1000 THEN <<ToString(n)>>
    ELSE Grouped(n \div 1000) \o <<",">> \o Pad3(n % 1000)

\* JobScraper._format_salary_number
FormatSalaryNumber(value) ==
    CASE value.kind = "int" -> Grouped(value.n)
      [] value.kind = "float" ->
            IF value.n % 100 = 0 THEN Grouped(value.n \div 100)
            ELSE Grouped(value.n \div 100) \o <<".">> \o Pad2(value.n % 100)
      [] value.kind = "str" -> IF value.s = "" THEN <<>> ELSE <<value.s>>
      [] OTHER -> None

\* the "value" of a baseSalary: absent, a scalar, or an object with bounds
NoSalaryValue == [kind |-> "absent", scalar |-> NoValue, minValue |-> NoValue,
                  maxValue |-> NoValue, unitText |-> None]
ScalarSalary(v) == [NoSalaryValue EXCEPT !.kind = "scalar", !.scalar = v]
RangeSalary(min_value, max_value, unit) ==
    [NoSalaryValue EXCEPT !.kind = "dict", !.minValue = min_value,
                          !.maxValue = max_value, !.unitText = unit]

\* a baseSalary: None, a string, an object, or a value of another type
SalaryData(kind, text, currency, currencyCode, unitText, value) ==
    [kind |-> kind, text |-> text, currency |-> currency, currencyCode |-> currencyCode,
     unitText |-> unitText, value |-> value]
NoSalary == SalaryData("none", <<>>, None, None, None, NoSalaryValue)
SalaryString(text) == SalaryData("str", text, None, None, None, NoSalaryValue)

\* the characters between the two numbers of a range, as the source has them
RANGE_SEPARATOR == "U+00E2 U+20AC U+201C"

\* " ".join(parts), the parts that are empty or None left out
RECURSIVE JoinParts(_)
JoinParts(parts) ==
    IF parts = <<>> THEN <<>>
    ELSE IF ~Truthy(Head(parts)) THEN JoinParts(Tail(parts))
    ELSE IF JoinParts(Tail(parts)) = <<>> THEN Head(parts)
    ELSE Head(parts) \o <<SP>> \o JoinParts(Tail(parts))

\* JobScraper._format_schema_salary
FormatSchemaSalary(salary_data) ==
    LET currency == Or(salary_data.currency, salary_data.currencyCode)
        value == salary_data.value
        min_value == value.minValue
        max_value == value.maxValue
        range_text ==
            IF value.kind = "dict"
            THEN (IF ValueTruthy(min_value) /\ ValueTruthy(max_value)
                  THEN FormatSalaryNumber(min_value) \o <<SP, RANGE_SEPARATOR, SP>>
                       \o FormatSalaryNumber(max_value)
                  ELSE IF min_value # NoValue THEN FormatSalaryNumber(min_value)
                  ELSE IF max_value # NoValue THEN FormatSalaryNumber(max_value)
                  ELSE None)
            ELSE IF value.kind = "scalar" /\ value.scalar # NoValue
                 THEN FormatSalaryNumber(value.scalar)
            ELSE None
        unit == IF ~Truthy(salary_data.unitText) /\ value.kind = "dict"
                   /\ Truthy(value.unitText)
                THEN value.unitText ELSE salary_data.unitText
        joined == JoinParts(<<range_text, unit,
                              IF Truthy(currency) THEN <<"(">> \o currency \o <<")">>
                              ELSE None>>)
    IN CASE salary_data.kind = "str" ->
              IF salary_data.text = <<>> THEN None ELSE Strip(salary_data.text)
         [] salary_data.kind = "dict" -> IF joined = <<>> THEN None ELSE Strip(joined)
         [] OTHER -> None

(***************************************************************************)
(* JobListing.to_dict (scraper.py): the output mapping                     *)
(***************************************************************************)
\* clean(): None becomes "", a string is stripped
Clean(value) == IF value = None THEN <<>> ELSE Strip(value)

ToDict(job) ==
    [id |-> Clean(job.id), title |-> Clean(job.title), company |-> Clean(job.company),
     companyUrl |-> Clean(job.company_url),
     companyProfileUrl |-> Clean(job.company_profile_url),
     location |-> Clean(job.location), workType |-> Clean(job.work_type),
     workArrangement |-> Clean(job.work_arrangement), salary |-> Clean(job.salary),
     description |-> Clean(job.description), postedAt |-> Clean(job.posted_at),
     applyUrl |-> Clean(job.apply_url), jobUrl |-> Clean(job.job_url),
     source |-> Clean(job.source)]

(***************************************************************************)
(* Construction (both scrapers): max_jobs and max_pages come from the      *)
(* arguments, else from the environment, through _parse_int.               *)
(***************************************************************************)
\* float("inf")
Infinity == [kind |-> "inf", n |-> 1, s |-> ""]

\* the strings int() reads as a decimal integer, blanks around it allowed
DecimalStrings == ("5" :> 5) @@ ("0" :> 0) @@ ("-3" :> -3) @@ (" 7 " :> 7)

Outcome(exc, n) == [exc |-> exc, n |-> n]

\* int(value): the integer, or the exception raised
ToInt(value) ==
    CASE value.kind = "int" -> Outcome("none", value.n)
      [] value.kind = "float" ->
            Outcome("none", IF value.n >= 0 THEN value.n \div 100
                            ELSE 0 - ((0 - value.n) \div 100))
      [] value.kind = "inf" -> Outcome("OverflowError", 0)
      [] value.kind = "str" ->
            IF value.s \in DOMAIN DecimalStrings
            THEN Outcome("none", DecimalStrings[value.s])
            ELSE Outcome("ValueError", 0)
      [] OTHER -> Outcome("TypeError", 0)

\* JobScraper._parse_int / LinkedInScraper._parse_int
ParseInt(value, default) ==
    IF value = NoValue \/ value = StrValue("") THEN Outcome("none", default)
    ELSE IF ToInt(value).exc = "none"
         THEN Outcome("none", IF ToInt(value).n > 1 THEN ToInt(value).n ELSE 1)
    ELSE IF ToInt(value).exc \in {"TypeError", "ValueError"} THEN Outcome("none", default)
    ELSE ToInt(value)

\* Python's "a or b" on values
ValueOr(a, b) == IF ValueTruthy(a) THEN a ELSE b

\* max_jobs and max_pages, of the arguments or of the environment
Limits(max_jobs, max_pages) == [max_jobs |-> max_jobs, max_pages |-> max_pages]

\* how __init__ ended, and the limits of the scraper it built
Constructed(exc, jobs, pages) == [exc |-> exc, max_jobs |-> jobs, max_pages |-> pages]

\* JobScraper.__init__ / LinkedInScraper.__init__
Construct(args, env) ==
    LET jobs == ParseInt(ValueOr(args.max_jobs, env.max_jobs), 20)
        pages == ParseInt(ValueOr(args.max_pages, env.max_pages), 1)
    IN IF jobs.exc # "none" THEN Constructed(jobs.exc, 0, 0)
       ELSE IF pages.exc # "none" THEN Constructed(pages.exc, 0, 0)
       ELSE Constructed("none", jobs.n, pages.n)

(***************************************************************************)
(* build_search_url (both scrapers).  A URL is a string: the address, "?"  *)
(* and the query, whose parameters are "key", "=", value joined by "&".    *)
(***************************************************************************)
SEEK_SEARCH_URL == SEEK_ROOT_URL \o "/jobs"
SEARCH_PATH == "/jobs/search"
JOBS_PER_PAGE == 25

\* the configuration build_search_url reads: keywords and location of both
\* scrapers, date_filter of JobScraper, time_filter_seconds of LinkedInScraper
SearchConfig(keywords, location, date_filter, time_filter_seconds) ==
    [keywords |-> keywords, location |-> location, date_filter |-> date_filter,
     time_filter_seconds |-> time_filter_seconds]

\* urllib.parse.quote_plus of a string of words and blanks
QuotePlus(text) == [i \in 1..Len(text) |-> IF text[i] = SP THEN "+" ELSE text[i]]

\* urllib.parse.urlencode(params), params a sequence of <<key, value>>
UrlEncode(params) ==
    Join([i \in 1..Len(params) |-> <<params[i][1], "=">> \o QuotePlus(params[i][2])],
         <<"&">>)

\* JobScraper.build_search_url
SeekBuildSearchUrl(config, page) ==
    LET params ==
            <<(<<"keywords", config.keywords>>), (<<"where", config.location>>)>>
            \o (IF page > 1 THEN <<(<<"page", <<ToString(page)>> >>)>> ELSE <<>>)
            \o (IF config.date_filter # <<>>
                THEN <<(<<"daterange", config.date_filter>>)>> ELSE <<>>)
    IN <<SEEK_SEARCH_URL, "?">> \o UrlEncode(params)

\* LinkedInScraper.build_search_url
LinkedInBuildSearchUrl(config, page) ==
    LET seconds == config.time_filter_seconds
        params ==
            <<(<<"keywords", config.keywords>>), (<<"location", config.location>>),
              (<<"refresh", <<"true">> >>)>>
            \o (IF page > 1
                THEN <<(<<"start", <<ToString((page - 1) * JOBS_PER_PAGE)>> >>)>>
                ELSE <<>>)
            \o (IF seconds # NoValue /\ seconds.n # 0 /\ seconds.n > 0
                THEN <<(<<"f_TPR", <<"r" \o ToString(seconds.n)>> >>)>> ELSE <<>>)
    IN <<ROOT_URL \o SEARCH_PATH, "?">> \o UrlEncode(params)

BuildSearchUrl(s, config, page) ==
    IF s = "Seek" THEN SeekBuildSearchUrl(config, page)
    ELSE LinkedInBuildSearchUrl(config, page)

(***************************************************************************)
(* save_results (both scrapers).  The filesystem is the output path's      *)
(* parent directory, which exists or not, and the output file, which       *)
(* exists or not and holds a list of mappings.                             *)
(***************************************************************************)
Output(parent, exists, content) == [parent |-> parent, exists |-> exists, content |-> content]

\* neither the directory nor the file exists
NoOutput == Output(FALSE, FALSE, <<>>)

\* an element of the jobs argument: a JobListing, a dict, or a value of
\* another type
Element(kind, job, mapping) == [kind |-> kind, job |-> job, mapping |-> mapping]

\* save_results(jobs, output_path) on the filesystem before: how the call ends
\* and the filesystem after it
SaveResults(jobs, before) ==
    LET made == [before EXCEPT !.parent = TRUE]
        unsupported == \E i \in 1..Len(jobs) : jobs[i].kind \notin {"JobListing", "dict"}
        serializable ==
            [i \in 1..Len(jobs) |->
                IF jobs[i].kind = "JobListing" THEN ToDict(jobs[i].job) ELSE jobs[i].mapping]
    IN IF unsupported
       THEN [result |-> "TypeError", fs |-> made]
       ELSE [result |-> "path", fs |-> Output(TRUE, TRUE, serializable)]

(***************************************************************************)
(* The pages the fetch client returns.  A search page is described by its  *)
(* job cards, a detail page by the values its markup carries; SeekPage,    *)
(* LinkedInPage, SeekDetail and LinkedInDetail give the parsed HTML that   *)
(* the selectors of the two scrapers address.                              *)
(*   shape   "flat"    one card element per job                            *)
(*           "nested"  the card element holds a second card element        *)
(*                     (LinkedIn: <li> in the results list around          *)
(*                      <div class="base-card">)                           *)
(*           "bare"    Seek: an <article> without data-automation;         *)
(*                     LinkedIn: a div.base-card.job-search-card outside   *)
(*                     the results list                                    *)
(*   t1, t2  the text of the element the first (second) title selector     *)
(*           matches, None when the card has no such element               *)
(***************************************************************************)
Card(shape, t1, t2, href, company, location) ==
    [shape |-> shape, t1 |-> t1, t2 |-> t2, href |-> href, company |-> company,
     location |-> location]

\* doc with a tag appended below parent, and below it its string when text # None
AddEl(doc, parent, tag, cls, attrs, text) ==
    LET d == Append(doc, El(parent, tag, cls, attrs))
    IN IF text = None \/ text = <<>> THEN d ELSE Append(d, Str(Len(d), text))

\* doc with the element added when value # None
AddOpt(doc, parent, tag, cls, attrs, value) ==
    IF value = None THEN doc ELSE AddEl(doc, parent, tag, cls, attrs, value)

HrefAttr(href) == IF href = None THEN NoAttrs ELSE ("href" :> href)

SeekCardNodes(doc, c) ==
    LET root == Len(doc) + 1
        d1 == Append(doc, El(0, "article", {},
                             IF c.shape = "bare" THEN NoAttrs ELSE (AUTO :> <<"normalJob">>)))
        d2 == IF c.shape = "nested"
              THEN Append(d1, El(root, "div", {}, (AUTO :> <<"job-card">>)))
              ELSE d1
        box == Len(d2)
        d3 == AddOpt(d2, box, "a", {}, (AUTO :> <<"jobTitle">>) @@ HrefAttr(c.href), c.t1)
        d4 == AddOpt(d3, box, "span", {}, (AUTO :> <<"job-title">>), c.t2)
        d5 == IF c.t1 = None /\ c.href # None
              THEN Append(d4, El(box, "a", {}, HrefAttr(c.href)))
              ELSE d4
        d6 == AddOpt(d5, box, "span", {}, (AUTO :> <<"jobCompany">>), c.company)
    IN AddOpt(d6, box, "span", {}, (AUTO :> <<"jobLocation">>), c.location)

LinkedInCardNodes(doc, c) ==
    LET d0 == IF c.shape = "bare" THEN doc
              ELSE Append(doc, El(0, "ul", {"jobs-search__results-list"}, NoAttrs))
        d1 == IF c.shape = "bare" THEN d0 ELSE Append(d0, El(Len(d0), "li", {}, NoAttrs))
        d2 == IF c.shape = "flat" THEN d1
              ELSE Append(d1, El(IF c.shape = "bare" THEN 0 ELSE Len(d1), "div",
                                 {"base-card", "job-search-card"}, NoAttrs))
        box == Len(d2)
        d3 == AddOpt(d2, box, "h3", {"base-search-card__title"}, NoAttrs, c.t1)
        d4 == AddOpt(d3, box, "h3", {"job-search-card__title"}, NoAttrs, c.t2)
        d5 == IF c.href = None THEN d4
              ELSE Append(d4, El(box, "a", {"base-card__full-link"}, HrefAttr(c.href)))
        d6 == AddOpt(d5, box, "h4", {"base-search-card__subtitle"}, NoAttrs, c.company)
    IN AddOpt(d6, box, "span", {"job-search-card__location"}, NoAttrs, c.location)

RECURSIVE SeekNodes(_, _)
SeekNodes(doc, cards) ==
    IF cards = <<>> THEN doc ELSE SeekNodes(SeekCardNodes(doc, Head(cards)), Tail(cards))

RECURSIVE LinkedInNodes(_, _)
LinkedInNodes(doc, cards) ==
    IF cards = <<>> THEN doc
    ELSE LinkedInNodes(LinkedInCardNodes(doc, Head(cards)), Tail(cards))

Html(nodes, scripts) == [empty |-> FALSE, nodes |-> nodes, scripts |-> scripts]

\* the empty (or None) markup
EmptyHtml == [empty |-> TRUE, nodes |-> <<>>, scripts |-> <<>>]

SeekPage(cards) == Html(SeekNodes(<<>>, cards), <<>>)

LinkedInPage(cards) == Html(LinkedInNodes(<<>>, cards), <<>>)

\* A detail page: the JobPosting item of its structured data (NoSchema for
\* none) and the values of the elements its selectors find (None for absent).
Detail(schema, title, company, location, arrangement, description, apply) ==
    [schema |-> schema, title |-> title, company |-> company, location |-> location,
     arrangement |-> arrangement, description |-> description, apply |-> apply]

SeekDetail(d) ==
    LET d1 == AddOpt(<<>>, 0, "h1", {}, (AUTO :> <<"job-detail-title">>), d.title)
        d2 == AddOpt(d1, 0, "span", {}, (AUTO :> <<"job-detail-company-name">>), d.company)
        d3 == AddOpt(d2, 0, "span", {}, (AUTO :> <<"job-detail-location">>), d.location)
        d4 == AddOpt(d3, 0, "span", {}, (AUTO :> <<"job-detail-work-arrangements">>),
                     d.arrangement)
        d5 == AddOpt(d4, 0, "div", {}, (AUTO :> <<"jobAdDetails">>), d.description)
        d6 == IF d.apply = None THEN d5
              ELSE Append(d5, El(0, "a", {}, (AUTO :> <<"job-detail-apply">>)
                                             @@ HrefAttr(d.apply)))
    IN Html(d6, IF d.schema = NoSchema THEN <<>>
                ELSE <<Script(TRUE, FALSE, <<>>), Script(FALSE, TRUE, <<d.schema>>)>>)

LinkedInDetail(d) ==
    LET d1 == AddOpt(<<>>, 0, "h1", {"top-card-layout__title"}, NoAttrs, d.title)
        d2 == AddOpt(d1, 0, "span", {"topcard__flavor"}, NoAttrs, d.company)
        d3 == AddOpt(d2, 0, "span", {"topcard__flavor--bullet"}, NoAttrs, d.location)
        d4 == AddOpt(d3, 0, "span", {"jobs-unified-top-card__workplace-type"}, NoAttrs,
                     d.arrangement)
        d5 == AddOpt(d4, 0, "div", {"show-more-less-html__markup"}, NoAttrs, d.description)
        d6 == IF d.apply = None THEN d5
              ELSE Append(d5, El(0, "a", {"topcard__link"}, HrefAttr(d.apply)))
    IN Html(d6, <<>>)

(***************************************************************************)
(* The two scrapers behind one name each                                   *)
(***************************************************************************)
Sites == {"Seek", "LinkedIn"}

ParseJobCards(s, html) ==
    IF s = "Seek" THEN SeekParseJobCards(html) ELSE LinkedInParseJobCards(html)

ParseJobDetailPage(s, job, html) ==
    IF s = "Seek" THEN SeekParseJobDetailPage(job, html)
    ELSE LinkedInParseJobDetailPage(job, html)

\* the card elements parse_job_cards iterates over
CardElements(s, html) ==
    IF html.empty THEN <<>>
    ELSE IF s = "Seek" THEN SeekCards(html) ELSE LinkedInCards(html)

\* the title _parse_job_card extracts from a card element
CardTitle(s, doc, card) ==
    IF s = "Seek" THEN ExtractText(doc, card, <<"jobTitle", "job-title">>)
    ELSE SelectText(doc, card, <<Css("h3", "base-search-card__title"),
                                 Css("h3", "job-search-card__title"),
                                 Css("a", "job-card-list__title")>>, FALSE)

\* the title of every card element of a page, in the order of parse_job_cards
TitlesOf(s, html) ==
    LET cards == CardElements(s, html)
    IN [k \in 1..Len(cards) |-> CardTitle(s, html.nodes, cards[k])]

PageOf(s, cards) == IF s = "Seek" THEN SeekPage(cards) ELSE LinkedInPage(cards)

DetailOf(s, d) == IF s = "Seek" THEN SeekDetail(d) ELSE LinkedInDetail(d)

(***************************************************************************)
(* Bounds and input pools                                                  *)
(***************************************************************************)
MaxJobs == 2
MaxPages == 2
MaxCards == 2

X == <<"X">>
Y == <<SP, "Y">>
Acme == <<"Acme">>
Job101 == <<"/job/", "101">>
View202 == <<"/jobs/view/", "202">>

\* the cards of the search pages the pipeline is run on
CardX == Card("flat", X, None, Job101, Acme, <<"Sydney">>)
CardY == Card("flat", Y, None, None, None, None)
CardUntitled == Card("flat", None, None, View202, Acme, None)

\* cards whose first title element is empty, or blank, and whose second has text
Z == <<"Z">>
CardEmptyFirst == Card("flat", <<>>, Z, View202, None, None)
CardBlankFirst == Card("flat", <<SP>>, Z, None, Acme, None)

\* a card with both title elements, a card in a container that is matched
\* too, and a card that only the most general selector finds
CardBoth == Card("flat", X, Z, None, None, None)
CardNested == Card("nested", X, None, Job101, Acme, None)
CardBare == Card("bare", Y, None, None, None, None)

\* the cards of the pages that card extraction is run on
CardPool == {CardX, CardY, CardUntitled, CardEmptyFirst, CardBlankFirst, CardBoth,
             CardNested, CardBare}

\* the pages of at most MaxCards cards
CardPages == UNION {[1..n -> CardPool] : n \in 0..MaxCards}

\* the cards that enrichment is run on
DetailCards ==
    {Card("flat", X, None, href, company, location) :
        href \in {None, Job101}, company \in {None, Acme}, location \in {None, <<"Sydney">>}}

PipelinePages == {<<CardX, CardUntitled>>, <<CardY, CardX>>}

\* the detail pages the pipeline is run on
DetailCss == Detail(NoSchema, <<"Senior", SP, "X">>, <<"Initech">>, <<"Perth">>,
                    <<"Remote">>, <<"Build", LF, SP, "things">>, <<"/apply/", "101">>)

DetailSchema ==
    Detail([SchemaItem("JobPosting") EXCEPT
              !.title = <<"Schema", SP, "X">>,
              !.hiringOrganization = Org(<<"Globex">>, None, None, None),
              !.description = <<"<p>", "Schema", SP, "text", "</p>">>,
              !.location = <<"Hobart">>],
           None, None, None, None, None, None)

PipelineDetails == {DetailCss, DetailSchema}

\* the detail pages that enrichment is run on
DetailPool ==
    {Detail(schema, title, company, location, None, description, apply) :
        schema \in {NoSchema, DetailSchema.schema,
                    [DetailSchema.schema EXCEPT !.title = None, !.location = None]},
        title \in {None, DetailCss.title},
        company \in {None, DetailCss.company},
        location \in {None, DetailCss.location},
        description \in {None, DetailCss.description},
        apply \in {None, DetailCss.apply}}

(***************************************************************************)
(* State                                                                   *)
(***************************************************************************)
VARIABLES
    \* the pipeline: scrape_jobs / scrape_jobs_async of one scraper object
    site,           \* which scraper
    max_jobs,       \* self.max_jobs / self.config.max_jobs
    max_pages,      \* self.max_pages / self.config.max_pages
    loop_running,   \* whether the caller runs inside an event loop
    entry,          \* "none", "sync" (scrape_jobs) or "async" (scrape_jobs_async)
    pc,             \* where scrape_jobs_async stands
    exc,            \* the exception that left the call, "none" when none
    page,           \* the page loop's variable
    page_jobs,      \* the cards parsed from the current page
    idx,            \* the card loop's position in page_jobs (from 1)
    results,        \* the accumulated listings
    inflight,       \* the crawler.arun calls that have not returned
    fetches,        \* how many crawler.arun calls were started
    last_search,    \* how the last search fetch ended: "none", "ok", "fail", "throw"
    search_html,    \* the markup of the last successful search fetch
    page_start,     \* len(results) when the current page's card loop began
    ret,            \* what scrape_jobs_async returned
    out,            \* what scrape_jobs returned
    last_detail,    \* how the last detail fetch ended: "none", "ok", "fail", "throw"
    detail_page,    \* the markup of the last successful detail fetch
    fetch_log,      \* the crawler.arun calls started, in order
    extracted,      \* <<page, position>> of every card record parse_job_cards gave
    origins,        \* <<page, position>> of the card record of each of results
    \* card extraction on its own
    cards_pc, cards_site, cards_input, cards_html, job_listings, card_titles,
    \* detail enrichment on its own
    detail_pc, detail_site, detail_card, detail_input, detail_html, card_job, detail_job,
    \* the date normaliser on its own: its argument and what it returned
    date_pc, date_input, date_output,
    \* the salary formatter on its own: its argument and what it returned
    salary_pc, salary_input, salary_output,
    \* a whitespace normaliser on its own: which one, its argument, what it
    \* returned, and what it returned when applied to that result
    ws_pc, ws_fn, ws_input, ws_output, ws_again,
    \* to_dict on its own: the records it is applied to, one after the other,
    \* and the mappings it returned
    ser_jobs, ser_dicts,
    \* save_results on its own: its argument, how the call ended, and the
    \* output directory and file before and after the call
    save_pc, save_jobs, save_result, fs_before, fs,
    \* build_search_url on its own: the scraper, its configuration, the page
    \* asked for and the URL returned
    url_pc, url_site, url_config, url_page, url_output,
    \* construction on its own: the max_jobs and max_pages arguments, the
    \* environment's values for them, and how __init__ ended
    cfg_pc, cfg_args, cfg_env, cfg_result,
    \* section extraction on its own: the blocks of the page, its parsed
    \* markup and what _extract_section_by_heading returned
    sec_pc, sec_blocks, sec_html, sec_output

pipeVars == <<site, max_jobs, max_pages, loop_running, entry, pc, exc, page, page_jobs,
              idx, results, inflight, fetches, last_search, search_html, page_start,
              ret, out, last_detail, detail_page, fetch_log, extracted, origins>>
cardVars == <<cards_pc, cards_site, cards_input, cards_html, job_listings, card_titles>>
detailVars == <<detail_pc, detail_site, detail_card, detail_input, detail_html, card_job,
                detail_job>>
dateVars == <<date_pc, date_input, date_output>>

\* the variables of the functions that are run on their own
salaryVars == <<salary_pc, salary_input, salary_output>>
wsVars == <<ws_pc, ws_fn, ws_input, ws_output, ws_again>>
serVars == <<ser_jobs, ser_dicts>>
saveVars == <<save_pc, save_jobs, save_result, fs_before, fs>>
urlVars == <<url_pc, url_site, url_config, url_page, url_output>>
cfgVars == <<cfg_pc, cfg_args, cfg_env, cfg_result>>
secVars == <<sec_pc, sec_blocks, sec_html, sec_output>>
unitVars == <<dateVars, salaryVars, wsVars, serVars, saveVars, urlVars, cfgVars, secVars>>
vars == <<pipeVars, cardVars, detailVars, unitVars>>

PipeIdle ==
    /\ site = "Seek" /\ max_jobs = 1 /\ max_pages = 1 /\ loop_running = FALSE
    /\ entry = "none" /\ pc = "off" /\ exc = "none" /\ page = 0 /\ page_jobs = <<>>
    /\ idx = 1 /\ results = <<>> /\ inflight = {} /\ fetches = 0
    /\ last_search = "none" /\ search_html = EmptyHtml /\ page_start = 0
    /\ ret = <<>> /\ out = <<>>
    /\ last_detail = "none" /\ detail_page = EmptyHtml
    /\ fetch_log = <<>> /\ extracted = <<>> /\ origins = <<>>

CardsIdle ==
    /\ cards_pc = "off" /\ cards_site = "Seek" /\ cards_input = <<>>
    /\ cards_html = EmptyHtml /\ job_listings = <<>> /\ card_titles = <<>>

DetailIdle ==
    /\ detail_pc = "off" /\ detail_site = "Seek" /\ detail_card = CardX
    /\ detail_input = DetailCss /\ detail_html = EmptyHtml
    /\ card_job = NoJob /\ detail_job = NoJob

DateIdle == date_pc = "off" /\ date_input = <<>> /\ date_output = None

SalaryIdle == salary_pc = "off" /\ salary_input = NoSalary /\ salary_output = None

WsIdle ==
    /\ ws_pc = "off"
    /\ ws_fn = "_clean_text"
    /\ ws_input = <<>>
    /\ ws_output = <<>>
    /\ ws_again = <<>>

SerIdle == ser_jobs = <<>> /\ ser_dicts = <<>>

SaveIdle ==
    /\ save_pc = "off"
    /\ save_jobs = <<>>
    /\ save_result = "none"
    /\ fs_before = NoOutput
    /\ fs = NoOutput

UrlIdle ==
    /\ url_pc = "off"
    /\ url_site = "Seek"
    /\ url_config = SearchConfig(<<>>, <<>>, <<>>, NoValue)
    /\ url_page = 1
    /\ url_output = <<>>

CfgIdle ==
    /\ cfg_pc = "off"
    /\ cfg_args = Limits(NoValue, NoValue)
    /\ cfg_env = Limits(NoValue, NoValue)
    /\ cfg_result = Constructed("none", 0, 0)

SecIdle ==
    /\ sec_pc = "off"
    /\ sec_blocks = <<>>
    /\ sec_html = EmptyHtml
    /\ sec_output = None

UnitsIdle ==
    DateIdle /\ SalaryIdle /\ WsIdle /\ SerIdle /\ SaveIdle /\ UrlIdle /\ CfgIdle
    /\ SecIdle

\* the variables of every function run on its own but those of group g stay
KeepUnits(g) ==
    /\ IF g = "date" THEN TRUE ELSE UNCHANGED dateVars
    /\ IF g = "salary" THEN TRUE ELSE UNCHANGED salaryVars
    /\ IF g = "ws" THEN TRUE ELSE UNCHANGED wsVars
    /\ IF g = "ser" THEN TRUE ELSE UNCHANGED serVars
    /\ IF g = "save" THEN TRUE ELSE UNCHANGED saveVars
    /\ IF g = "url" THEN TRUE ELSE UNCHANGED urlVars
    /\ IF g = "cfg" THEN TRUE ELSE UNCHANGED cfgVars
    /\ IF g = "sec" THEN TRUE ELSE UNCHANGED secVars

(***************************************************************************)
(* The pipeline                                                            *)
(***************************************************************************)
\* the state after construction: __init__ has parsed max_jobs and max_pages
\* with _parse_int, which yields integers >= 1
InitPipe ==
    /\ site \in Sites
    /\ max_jobs \in 1..MaxJobs
    /\ max_pages \in 1..MaxPages
    /\ loop_running \in BOOLEAN
    /\ entry = "none" /\ pc = "idle" /\ exc = "none" /\ page = 0 /\ page_jobs = <<>>
    /\ idx = 1 /\ results = <<>> /\ inflight = {} /\ fetches = 0
    /\ last_search = "none" /\ search_html = EmptyHtml /\ page_start = 0
    /\ ret = <<>> /\ out = <<>>
    /\ last_detail = "none" /\ detail_page = EmptyHtml
    /\ fetch_log = <<>> /\ extracted = <<>> /\ origins = <<>>

\* the cap test with > for >=: one listing too many gets through
CapReachedOffByOne == Len(results) > max_jobs

\* "if len(results) >= self.max_jobs: break", of both loops
CapReached == Len(results) >= max_jobs

\* _run_async without its test
RefusesNever == FALSE

\* _run_async: "if loop and loop.is_running(): raise RuntimeError(...)"
RefusesToRun == loop_running

\* scrape_jobs: the coroutine is created, _run_async refuses or runs it
CallScrapeJobs ==
    /\ pc = "idle"
    /\ entry' = "sync"
    /\ IF RefusesToRun
       THEN pc' = "raised" /\ exc' = "RuntimeError" /\ page' = page
       ELSE pc' = "page_loop" /\ exc' = exc /\ page' = 1
    /\ UNCHANGED <<site, max_jobs, max_pages, loop_running, page_jobs, idx, results,
                   inflight, fetches, last_search, search_html, page_start, ret, out>>
    /\ UNCHANGED <<last_detail, detail_page, fetch_log, extracted, origins>>
    /\ UNCHANGED <<cardVars, detailVars, unitVars>>

\* scrape_jobs_async awaited by a caller that runs inside an event loop
CallScrapeJobsAsync ==
    /\ pc = "idle"
    /\ loop_running
    /\ entry' = "async"
    /\ pc' = "page_loop"
    /\ page' = 1
    /\ UNCHANGED <<site, max_jobs, max_pages, loop_running, exc, page_jobs, idx, results,
                   inflight, fetches, last_search, search_html, page_start, ret, out>>
    /\ UNCHANGED <<last_detail, detail_page, fetch_log, extracted, origins>>
    /\ UNCHANGED <<cardVars, detailVars, unitVars>>

\* the head of "for page in range(1, max_pages + 1)": the loop ends, or the cap
\* breaks it, or the search fetch of the page starts (await crawler.arun)
PageLoop ==
    /\ pc = "page_loop"
    /\ IF page > max_pages \/ CapReached
       THEN pc' = "return" /\ UNCHANGED <<inflight, fetches, fetch_log>>
       ELSE /\ inflight' = inflight \cup {[kind |-> "search", page |-> page, card |-> 0]}
            /\ fetch_log' = Append(fetch_log, [kind |-> "search", page |-> page, card |-> 0])
            /\ fetches' = fetches + 1
            /\ pc' = "await_search"
    /\ UNCHANGED <<site, max_jobs, max_pages, loop_running, entry, exc, page, page_jobs,
                   idx, results, last_search, search_html, page_start, ret, out>>
    /\ UNCHANGED <<last_detail, detail_page, extracted, origins>>
    /\ UNCHANGED <<cardVars, detailVars, unitVars>>

\* crawler.arun of a search page raises: nothing inside the loop catches it,
\* the outer "except Exception" logs it and raises it again
SearchFetchThrows ==
    /\ pc = "await_search"
    /\ inflight' = {}
    /\ last_search' = "throw"
    /\ pc' = "raised"
    /\ exc' = "SearchFetchFault"
    /\ UNCHANGED <<site, max_jobs, max_pages, loop_running, entry, page, page_jobs, idx,
                   results, fetches, search_html, page_start, ret, out>>
    /\ UNCHANGED <<last_detail, detail_page, fetch_log, extracted, origins>>
    /\ UNCHANGED <<cardVars, detailVars, unitVars>>

\* a page whose fetch returned without success fetched again
SearchFetchFailsRetried ==
    /\ pc = "await_search"
    /\ inflight' = {}
    /\ last_search' = "fail"
    /\ pc' = "page_loop"
    /\ UNCHANGED <<site, max_jobs, max_pages, loop_running, entry, exc, page, page_jobs,
                   idx, results, fetches, search_html, page_start, ret, out>>
    /\ UNCHANGED <<last_detail, detail_page, fetch_log, extracted, origins>>
    /\ UNCHANGED <<cardVars, detailVars, unitVars>>

\* the search fetch returns without success: warning, continue
SearchFetchFails ==
    /\ pc = "await_search"
    /\ inflight' = {}
    /\ last_search' = "fail"
    /\ page' = page + 1
    /\ pc' = "page_loop"
    /\ UNCHANGED <<site, max_jobs, max_pages, loop_running, entry, exc, page_jobs, idx,
                   results, fetches, search_html, page_start, ret, out>>
    /\ UNCHANGED <<last_detail, detail_page, fetch_log, extracted, origins>>
    /\ UNCHANGED <<cardVars, detailVars, unitVars>>

\* the search fetch returns markup: page_jobs = self.parse_job_cards(html)
SearchFetchSucceeds ==
    /\ pc = "await_search"
    /\ \E html \in {PageOf(site, cards) : cards \in PipelinePages} \cup {EmptyHtml} :
          /\ search_html' = html
          /\ page_jobs' = ParseJobCards(site, html)
          /\ extracted' = extracted \o
                 [k \in 1..Len(ParseJobCards(site, html)) |->
                     [page |-> page, card |-> k,
                      job_url |-> ParseJobCards(site, html)[k].job_url]]
    /\ inflight' = {}
    /\ last_search' = "ok"
    /\ idx' = 1
    /\ page_start' = Len(results)
    /\ pc' = "card_loop"
    /\ UNCHANGED <<site, max_jobs, max_pages, loop_running, entry, exc, page, results,
                   fetches, ret, out>>
    /\ UNCHANGED <<last_detail, detail_page, fetch_log, origins>>
    /\ UNCHANGED <<cardVars, detailVars, unitVars>>

\* the detail fetch started and not awaited: the job is appended
\* and the loop goes on while the fetch is outstanding
CardLoopNoAwait ==
    /\ pc = "card_loop"
    /\ IF idx > Len(page_jobs) \/ CapReached
       THEN /\ page' = page + 1
            /\ pc' = "page_loop"
            /\ UNCHANGED <<idx, results, inflight, fetches, fetch_log, origins>>
       ELSE /\ inflight' = IF Truthy(page_jobs[idx].job_url)
                           THEN inflight \cup {[kind |-> "detail", page |-> page, card |-> idx]}
                           ELSE inflight
            /\ fetch_log' = IF Truthy(page_jobs[idx].job_url)
                            THEN Append(fetch_log,
                                        [kind |-> "detail", page |-> page, card |-> idx])
                            ELSE fetch_log
            /\ origins' = Append(origins, <<page, idx>>)
            /\ fetches' = IF Truthy(page_jobs[idx].job_url) THEN fetches + 1 ELSE fetches
            /\ results' = Append(results, page_jobs[idx])
            /\ idx' = idx + 1
            /\ UNCHANGED <<page, pc>>
    /\ UNCHANGED <<site, max_jobs, max_pages, loop_running, entry, exc, page_jobs,
                   last_search, search_html, page_start, ret, out>>
    /\ UNCHANGED <<last_detail, detail_page, extracted>>
    /\ UNCHANGED <<cardVars, detailVars, unitVars>>

\* the head of "for job in page_jobs": the page is done, or the cap breaks the
\* loop, or the job's detail fetch starts (await self._enrich_job_listing), or
\* a job without URL is appended as it is
CardLoop ==
    /\ pc = "card_loop"
    /\ IF idx > Len(page_jobs) \/ CapReached
       THEN /\ page' = page + 1
            /\ pc' = "page_loop"
            /\ UNCHANGED <<idx, results, inflight, fetches, fetch_log, origins>>
       ELSE IF Truthy(page_jobs[idx].job_url)
       THEN /\ inflight' = inflight \cup {[kind |-> "detail", page |-> page, card |-> idx]}
            /\ fetch_log' = Append(fetch_log, [kind |-> "detail", page |-> page, card |-> idx])
            /\ fetches' = fetches + 1
            /\ pc' = "await_detail"
            /\ UNCHANGED <<page, idx, results, origins>>
       ELSE /\ results' = Append(results, page_jobs[idx])
            /\ origins' = Append(origins, <<page, idx>>)
            /\ idx' = idx + 1
            /\ UNCHANGED <<page, pc, inflight, fetches, fetch_log>>
    /\ UNCHANGED <<site, max_jobs, max_pages, loop_running, entry, exc, page_jobs,
                   last_search, search_html, page_start, ret, out>>
    /\ UNCHANGED <<last_detail, detail_page, extracted>>
    /\ UNCHANGED <<cardVars, detailVars, unitVars>>

\* the job put in front of the results
PrependJob(job) ==
    /\ inflight' = {}
    /\ results' = <<job>> \o results
    /\ origins' = <<(<<page, idx>>)>> \o origins
    /\ idx' = idx + 1
    /\ pc' = "card_loop"
    /\ UNCHANGED <<site, max_jobs, max_pages, loop_running, entry, exc, page, page_jobs,
                   fetches, last_search, search_html, page_start, ret, out>>
    /\ UNCHANGED <<fetch_log, extracted>>
    /\ UNCHANGED <<cardVars, detailVars, unitVars>>

\* what every return of _enrich_job_listing leads to: results.append(job),
\* with the job as the enrichment left it, and the next card
AppendJob(job) ==
    /\ inflight' = {}
    /\ results' = Append(results, job)
    /\ origins' = Append(origins, <<page, idx>>)
    /\ idx' = idx + 1
    /\ pc' = "card_loop"
    /\ UNCHANGED <<site, max_jobs, max_pages, loop_running, entry, exc, page, page_jobs,
                   fetches, last_search, search_html, page_start, ret, out>>
    /\ UNCHANGED <<fetch_log, extracted>>
    /\ UNCHANGED <<cardVars, detailVars, unitVars>>

\* crawler.arun of a detail page raising with nothing to catch it
DetailFetchThrowsUncaught ==
    /\ pc = "await_detail"
    /\ last_detail' = "throw"
    /\ inflight' = {}
    /\ pc' = "raised"
    /\ exc' = "DetailFetchFault"
    /\ UNCHANGED <<site, max_jobs, max_pages, loop_running, entry, page, page_jobs, idx,
                   results, fetches, last_search, search_html, page_start, ret, out,
                   detail_page, fetch_log, extracted, origins>>
    /\ UNCHANGED <<cardVars, detailVars, unitVars>>

\* crawler.arun of a detail page raises: _enrich_job_listing catches it
DetailFetchThrows ==
    /\ pc = "await_detail"
    /\ last_detail' = "throw"
    /\ UNCHANGED detail_page
    /\ AppendJob(page_jobs[idx])

\* the detail fetch returns without success
DetailFetchFails ==
    /\ pc = "await_detail"
    /\ last_detail' = "fail"
    /\ UNCHANGED detail_page
    /\ AppendJob(page_jobs[idx])

\* the detail fetch returns markup: self._parse_job_detail_page(job, html)
DetailFetchSucceeds ==
    /\ pc = "await_detail"
    /\ last_detail' = "ok"
    /\ \E html \in {DetailOf(site, d) : d \in PipelineDetails} \cup {EmptyHtml} :
          /\ detail_page' = html
          /\ AppendJob(ParseJobDetailPage(site, page_jobs[idx], html))

\* "return results[: self.max_jobs]"
Returned == SubSeq(results, 1, IF Len(results) < max_jobs THEN Len(results) ELSE max_jobs)

\* scrape_jobs_async returns; scrape_jobs turns the listings into dictionaries
Return ==
    /\ pc = "return"
    /\ ret' = Returned
    /\ out' = IF entry = "sync" THEN [k \in 1..Len(Returned) |-> ToDict(Returned[k])]
              ELSE out
    /\ pc' = "done"
    /\ UNCHANGED <<site, max_jobs, max_pages, loop_running, entry, exc, page, page_jobs,
                   idx, results, inflight, fetches, last_search, search_html, page_start>>
    /\ UNCHANGED <<last_detail, detail_page, fetch_log, extracted, origins>>
    /\ UNCHANGED <<cardVars, detailVars, unitVars>>

\* the steps of a running scrape_jobs_async
PipelineStep ==
    \/ PageLoop
    \/ SearchFetchThrows
    \/ SearchFetchFails
    \/ SearchFetchSucceeds
    \/ CardLoop
    \/ DetailFetchThrows
    \/ DetailFetchFails
    \/ DetailFetchSucceeds
    \/ Return

Next ==
    \/ CallScrapeJobs
    \/ CallScrapeJobsAsync
    \/ PipelineStep

Init == InitPipe /\ CardsIdle /\ DetailIdle /\ UnitsIdle

Spec == Init /\ [][Next]_vars

\* the pipeline when every fetch returns or throws and the code between two
\* awaits runs on: a step of a running scrape_jobs_async that can be taken is
\* taken
LiveSpec == Init /\ [][Next]_vars /\ WF_vars(PipelineStep)

(***************************************************************************)
(* Card extraction on its own: parse_job_cards applied to one page         *)
(***************************************************************************)
InitCards ==
    /\ cards_pc = "input"
    /\ cards_site \in Sites
    /\ cards_input \in CardPages
    /\ cards_html \in {PageOf(cards_site, cards_input)}
                        \cup (IF cards_input = <<>> THEN {EmptyHtml} ELSE {})
    /\ job_listings = <<>>
    /\ card_titles = <<>>

\* job_listings = scraper.parse_job_cards(html); card_titles are the titles
\* that _parse_job_card found for the card elements, in their order
ParseJobCardsCall ==
    /\ cards_pc = "input"
    /\ job_listings' = ParseJobCards(cards_site, cards_html)
    /\ card_titles' = TitlesOf(cards_site, cards_html)
    /\ cards_pc' = "parsed"
    /\ UNCHANGED <<cards_site, cards_input, cards_html>>
    /\ UNCHANGED <<pipeVars, detailVars, unitVars>>

NextCards == ParseJobCardsCall

InitCardsOnly == InitCards /\ PipeIdle /\ DetailIdle /\ UnitsIdle

SpecCards == InitCardsOnly /\ [][NextCards]_vars

(***************************************************************************)
(* Detail enrichment on its own: _parse_job_detail_page applied to the     *)
(* listing of one card and one detail page                                 *)
(***************************************************************************)
InitDetail ==
    /\ detail_pc = "card"
    /\ detail_site \in Sites
    /\ detail_card \in DetailCards
    /\ detail_input \in DetailPool
    /\ detail_html \in {DetailOf(detail_site, detail_input), EmptyHtml}
    /\ card_job = ParseJobCards(detail_site, PageOf(detail_site, <<detail_card>>))[1]
    /\ detail_job = NoJob

\* self._parse_job_detail_page(job, html) on the listing of the card
ParseJobDetailPageCall ==
    /\ detail_pc = "card"
    /\ detail_job' = ParseJobDetailPage(detail_site, card_job, detail_html)
    /\ detail_pc' = "enriched"
    /\ UNCHANGED <<detail_site, detail_card, detail_input, detail_html, card_job>>
    /\ UNCHANGED <<pipeVars, cardVars, unitVars>>

NextDetail == ParseJobDetailPageCall

InitDetailOnly == InitDetail /\ PipeIdle /\ CardsIdle /\ UnitsIdle

SpecDetail == InitDetailOnly /\ [][NextDetail]_vars

(***************************************************************************)
(* Detail enrichment of records with and without an id: the records are    *)
(* drawn with an id or none and with a URL of each form, and                *)
(* _parse_job_detail_page is applied to them                               *)
(***************************************************************************)
\* no URL, URLs that one pattern matches, URLs that two patterns match (the
\* later pattern first in the URL, or the earlier), a slug, and no match
IdUrls ==
    {None,
     <<ROOT_URL, "/jobs/view/", "202">>,
     <<ROOT_URL, "/jobs/search", "?", "jobId=", "303", "&", "currentJobId=", "202">>,
     <<ROOT_URL, "/jobs/view/", "101", "?", "currentJobId=", "202">>,
     <<ROOT_URL, "/jobs/view/", "dev-9">>,
     <<SEEK_ROOT_URL, "/job/", "101">>,
     <<SEEK_ROOT_URL, "/job/", "dev-9", "?", "jobId=", "303">>,
     <<SEEK_ROOT_URL, "/jobs">>}

IdRecords(s) ==
    {[JobListing(<<s>>) EXCEPT !.title = X, !.id = id, !.job_url = job_url] :
        id \in {None, <<"77">>}, job_url \in IdUrls}

\* detail pages without structured data, with it, and with an identifier in it
IdDetails ==
    {DetailCss, DetailSchema,
     [DetailSchema EXCEPT !.schema = [DetailSchema.schema EXCEPT !.identifier = <<"55">>]]}

InitId ==
    /\ detail_pc = "card"
    /\ detail_site \in Sites
    /\ detail_card = CardX
    /\ detail_input \in IdDetails
    /\ detail_html \in {DetailOf(detail_site, detail_input), EmptyHtml}
    /\ card_job \in IdRecords(detail_site)
    /\ detail_job = NoJob

InitIdOnly == InitId /\ PipeIdle /\ CardsIdle /\ UnitsIdle

SpecId == InitIdOnly /\ [][NextDetail]_vars

(***************************************************************************)
(* The date normaliser on its own: _normalize_posted_at applied to one     *)
(* posted-date text                                                        *)
(***************************************************************************)
\* "within the past ", "posted " or nothing before the number
DatePrefixes == {<<>>, <<"within", SP, "the", SP, "past", SP>>, <<"posted", SP>>, <<SP>>}

\* "ago" or nothing after the unit
DateSuffixes == {<<>>, <<SP, "ago">>, <<SP>>}

\* the texts "<prefix><N><space?><unit><suffix>"
RelativeTexts ==
    {prefix \o <<n>> \o sep \o <<unit>> \o suffix :
        prefix \in DatePrefixes, n \in NumberAtoms, sep \in {<<>>, <<SP>>},
        unit \in AllUnits, suffix \in DateSuffixes}

\* absolute dates, the fixed phrases, and texts that are no date at all
OtherTexts ==
    {<<"2024-01-05">>, <<"2024-01-05", "T10:00:00">>, <<"2024-01-05", "T10:00:00", "Z">>,
     <<SP, "2024-01-05", "T10:00:00", "+10:00", LF>>,
     <<"new">>, <<"New">>, <<"just", SP, "posted">>, <<SP, "new", SP>>,
     <<"yesterday">>, <<"posted", SP, "yesterday">>,
     <<"past", SP, "24", SP, "hours">>,
     <<"soon">>, <<SP, "soon", TAB>>, <<"posted", SP, "soon">>, <<"3">>, <<"days">>,
     <<"3", SP, "soon">>, <<"within", SP, "the", SP, "past">>,
     <<>>, <<SP>>, <<SP, LF>>}

DateTexts == RelativeTexts \cup OtherTexts

InitDates ==
    /\ date_pc = "input"
    /\ date_input \in DateTexts
    /\ date_output = None

\* date_output = self._normalize_posted_at(date_input)
NormalizePostedAtCall ==
    /\ date_pc = "input"
    /\ date_output' = NormalizePostedAt(<<date_input>>)
    /\ date_pc' = "normalized"
    /\ UNCHANGED date_input
    /\ UNCHANGED <<pipeVars, cardVars, detailVars>>
    /\ KeepUnits("date")

NextDates == NormalizePostedAtCall

InitDatesOnly == InitDates /\ PipeIdle /\ CardsIdle /\ DetailIdle /\ SalaryIdle /\ WsIdle /\ SerIdle /\ SaveIdle
    /\ UrlIdle /\ CfgIdle
    /\ SecIdle

SpecDates == InitDatesOnly /\ [][NextDates]_vars

(***************************************************************************)
(* The salary formatter on its own: _format_schema_salary applied to one   *)
(* baseSalary                                                              *)
(***************************************************************************)
\* the numbers of the salaries: absent, 0, 0.0, integers, a fractional and a
\* whole float, a string
SalaryNumbers ==
    {NoValue, IntValue(0), FloatValue(0), IntValue(80000), IntValue(1234567),
     FloatValue(10000000), FloatValue(5050), StrValue("80k")}

SalaryValues ==
    {NoSalaryValue}
    \cup {ScalarSalary(v) : v \in SalaryNumbers \ {NoValue}}
    \cup {RangeSalary(lo, hi, unit) :
             lo \in SalaryNumbers, hi \in SalaryNumbers, unit \in {None, <<"HOUR">>}}

SalaryInputs ==
    {NoSalary, SalaryString(<<>>), SalaryString(<<SP>>),
     SalaryString(<<SP, "$", "80k", SP>>),
     SalaryData("list", <<>>, None, None, None, NoSalaryValue)}
    \cup {SalaryData("dict", <<>>, currency, code, unit, value) :
             currency \in {None, <<"AUD">>}, code \in {None, <<"USD">>},
             unit \in {None, <<"YEAR">>}, value \in SalaryValues}

InitSalary ==
    /\ salary_pc = "input"
    /\ salary_input \in SalaryInputs
    /\ salary_output = None

\* salary_output = self._format_schema_salary(salary_input)
FormatSchemaSalaryCall ==
    /\ salary_pc = "input"
    /\ salary_output' = FormatSchemaSalary(salary_input)
    /\ salary_pc' = "formatted"
    /\ UNCHANGED salary_input
    /\ UNCHANGED <<pipeVars, cardVars, detailVars>>
    /\ KeepUnits("salary")

NextSalary == FormatSchemaSalaryCall

InitSalaryOnly == InitSalary /\ PipeIdle /\ CardsIdle /\ DetailIdle /\ DateIdle /\ WsIdle /\ SerIdle /\ SaveIdle
    /\ UrlIdle /\ CfgIdle
    /\ SecIdle

SpecSalary == InitSalaryOnly /\ [][NextSalary]_vars

(***************************************************************************)
(* The whitespace normalisers on their own: one of them applied to a       *)
(* string, then applied again to what it returned                          *)
(***************************************************************************)
MaxTextLen == 4

\* the characters of the strings: a letter and the whitespace characters
TextChars == {"a", SP, TAB, LF, CR, FF, NBSP}

Texts == UNION {[1..n -> TextChars] : n \in 0..MaxTextLen}

Normalizers == {"_clean_text", "_clean_multiline_text", "_normalize_whitespace"}

\* the normaliser named fn applied to value
Normalize(fn, value) ==
    CASE fn = "_clean_text" -> CleanText(value)
      [] fn = "_clean_multiline_text" -> CleanMultilineText(value)
      [] fn = "_normalize_whitespace" -> NormalizeWhitespace(value)

InitWs ==
    /\ ws_pc = "input"
    /\ ws_fn \in Normalizers
    /\ ws_input \in Texts
    /\ ws_output = <<>>
    /\ ws_again = <<>>

\* ws_output = fn(ws_input)
NormalizeCall ==
    /\ ws_pc = "input"
    /\ ws_output' = Normalize(ws_fn, ws_input)
    /\ ws_pc' = "once"
    /\ UNCHANGED <<ws_fn, ws_input, ws_again>>
    /\ UNCHANGED <<pipeVars, cardVars, detailVars>>
    /\ KeepUnits("ws")

\* ws_again = fn(ws_output)
NormalizeAgainCall ==
    /\ ws_pc = "once"
    /\ ws_again' = Normalize(ws_fn, ws_output)
    /\ ws_pc' = "twice"
    /\ UNCHANGED <<ws_fn, ws_input, ws_output>>
    /\ UNCHANGED <<pipeVars, cardVars, detailVars>>
    /\ KeepUnits("ws")

NextWs == NormalizeCall \/ NormalizeAgainCall

InitWsOnly == InitWs /\ PipeIdle /\ CardsIdle /\ DetailIdle /\ DateIdle /\ SalaryIdle /\ SerIdle /\ SaveIdle
    /\ UrlIdle /\ CfgIdle
    /\ SecIdle

SpecWs == InitWsOnly /\ [][NextWs]_vars

(***************************************************************************)
(* to_dict on its own, applied to two records                              *)
(***************************************************************************)
\* the attributes _parse_job_detail_page of the LinkedIn scraper adds
DetailAttributes(requirements) ==
    [company_description |-> None, requirements |-> requirements, benefits |-> None,
     seniority_level |-> None, application_method |-> None]

\* the records: fields absent, empty, set, and set with a leading blank;
\* records of card extraction and records that detail enrichment added to
SerRecords ==
    {[JobListing(<<"LinkedIn">>) EXCEPT
         !.title = <<"Dev">>, !.description = description,
         !.company_url = company_url, !.extra = extra] :
        description \in {None, <<>>, <<"Build">>, <<SP, "Build">>},
        company_url \in {None, <<"https://acme.example">>},
        extra \in {<<>>, DetailAttributes(None), DetailAttributes(<<"Python">>)}}

InitSer ==
    /\ ser_jobs \in SerRecords \X SerRecords
    /\ ser_dicts = <<>>

\* ser_dicts.append(job.to_dict()) for the next record
ToDictCall ==
    /\ Len(ser_dicts) < Len(ser_jobs)
    /\ ser_dicts' = Append(ser_dicts, ToDict(ser_jobs[Len(ser_dicts) + 1]))
    /\ UNCHANGED ser_jobs
    /\ UNCHANGED <<pipeVars, cardVars, detailVars>>
    /\ KeepUnits("ser")

NextSer == ToDictCall

InitSerOnly ==
    InitSer /\ PipeIdle /\ CardsIdle /\ DetailIdle /\ DateIdle /\ SalaryIdle /\ WsIdle
    /\ SaveIdle /\ UrlIdle /\ CfgIdle
    /\ SecIdle

SpecSer == InitSerOnly /\ [][NextSer]_vars

(***************************************************************************)
(* save_results on its own                                                 *)
(***************************************************************************)
MaxElements == 3

SavedJob == [JobListing(<<"Seek">>) EXCEPT !.title = <<"Dev">>, !.job_url = <<"/job/", "101">>]

\* a typed record, a plain mapping, a string and None
Elements ==
    {Element("JobListing", SavedJob, ToDict(NoJob)),
     Element("dict", NoJob, ToDict([SavedJob EXCEPT !.title = <<"Ops">>])),
     Element("str", NoJob, ToDict(NoJob)),
     Element("NoneType", NoJob, ToDict(NoJob))}

\* the output directory is missing, or is there without the file, or holds a
\* file of an earlier run
Outputs ==
    {NoOutput, Output(TRUE, FALSE, <<>>), Output(TRUE, TRUE, <<ToDict(SavedJob)>>)}

InitSave ==
    /\ save_pc = "input"
    /\ save_jobs \in UNION {[1..n -> Elements] : n \in 0..MaxElements}
    /\ save_result = "none"
    /\ fs_before \in Outputs
    /\ fs = fs_before

\* self.save_results(save_jobs, output_path)
SaveResultsCall ==
    /\ save_pc = "input"
    /\ save_result' = SaveResults(save_jobs, fs).result
    /\ fs' = SaveResults(save_jobs, fs).fs
    /\ save_pc' = "saved"
    /\ UNCHANGED <<save_jobs, fs_before>>
    /\ UNCHANGED <<pipeVars, cardVars, detailVars>>
    /\ KeepUnits("save")

NextSave == SaveResultsCall

InitSaveOnly ==
    InitSave /\ PipeIdle /\ CardsIdle /\ DetailIdle /\ DateIdle /\ SalaryIdle /\ WsIdle
    /\ SerIdle /\ UrlIdle /\ CfgIdle
    /\ SecIdle

SpecSave == InitSaveOnly /\ [][NextSave]_vars

(***************************************************************************)
(* build_search_url on its own                                             *)
(***************************************************************************)
MaxPage == 3

\* the date_filter strings of JobScraper: unset, 7 days, 0 and -1
DateFilters == {<<>>, <<"7">>, <<"0">>, <<"-1">>}

\* the time_filter_seconds of LinkedInScraper, which _parse_time_filter
\* keeps at None or at 0 and above
TimeFilters == {NoValue, IntValue(0), IntValue(86400), IntValue(604800)}

SearchConfigs(s) ==
    {SearchConfig(keywords, location,
                  IF s = "Seek" THEN date_filter ELSE <<>>,
                  IF s = "Seek" THEN NoValue ELSE seconds) :
        keywords \in {<<"dev">>, <<"software", SP, "engineer">>},
        location \in {<<"Australia">>, <<"United", SP, "States">>},
        date_filter \in DateFilters, seconds \in TimeFilters}

InitUrl ==
    /\ url_pc = "input"
    /\ url_site \in Sites
    /\ url_config \in SearchConfigs(url_site)
    /\ url_page \in 1..MaxPage
    /\ url_output = <<>>

\* url_output = self.build_search_url(url_page)
BuildSearchUrlCall ==
    /\ url_pc = "input"
    /\ url_output' = BuildSearchUrl(url_site, url_config, url_page)
    /\ url_pc' = "built"
    /\ UNCHANGED <<url_site, url_config, url_page>>
    /\ UNCHANGED <<pipeVars, cardVars, detailVars>>
    /\ KeepUnits("url")

NextUrl == BuildSearchUrlCall

InitUrlOnly ==
    InitUrl /\ PipeIdle /\ CardsIdle /\ DetailIdle /\ DateIdle /\ SalaryIdle /\ WsIdle
    /\ SerIdle /\ SaveIdle /\ CfgIdle
    /\ SecIdle

SpecUrl == InitUrlOnly /\ [][NextUrl]_vars

(***************************************************************************)
(* Construction on its own                                                 *)
(***************************************************************************)
\* the values of an argument: absent, zero, negative, positive, fractional,
\* infinite, empty and non-numeric
ArgumentValues ==
    {NoValue, IntValue(0), IntValue(-3), IntValue(5), FloatValue(150), Infinity,
     StrValue(""), StrValue("abc")}

\* the values of an environment variable: unset, or a string
EnvironmentValues ==
    {NoValue, StrValue(""), StrValue("0"), StrValue("-3"), StrValue("5"),
     StrValue(" 7 "), StrValue("abc")}

InitCfg ==
    /\ cfg_pc = "input"
    /\ cfg_args \in {Limits(j, p) : j \in ArgumentValues, p \in ArgumentValues}
    /\ cfg_env \in {Limits(j, p) : j \in EnvironmentValues, p \in EnvironmentValues}
    /\ cfg_result = Constructed("none", 0, 0)

\* JobScraper(max_jobs=..., max_pages=...) / LinkedInScraper(...)
ConstructCall ==
    /\ cfg_pc = "input"
    /\ cfg_result' = Construct(cfg_args, cfg_env)
    /\ cfg_pc' = "constructed"
    /\ UNCHANGED <<cfg_args, cfg_env>>
    /\ UNCHANGED <<pipeVars, cardVars, detailVars>>
    /\ KeepUnits("cfg")

NextCfg == ConstructCall

InitCfgOnly ==
    InitCfg /\ PipeIdle /\ CardsIdle /\ DetailIdle /\ DateIdle /\ SalaryIdle /\ WsIdle
    /\ SerIdle /\ SaveIdle /\ UrlIdle
    /\ SecIdle

SpecCfg == InitCfgOnly /\ [][NextCfg]_vars

(***************************************************************************)
(* Section extraction on its own: _extract_section_by_heading applied to   *)
(* a page whose body is a run of headings and paragraphs                   *)
(***************************************************************************)
MaxBlocks == 4

\* a heading or a paragraph with its text
Block(tag, text) == [tag |-> tag, text |-> text]

Blocks ==
    {Block("h2", <<"Requirements">>), Block("h3", <<"Skills">>),
     Block("h4", <<"Details">>), Block("p", <<"Python">>), Block("p", <<"SQL">>)}

\* the markup of a page made of the blocks, one after the other
RECURSIVE BlockNodes(_, _)
BlockNodes(doc, blocks) ==
    IF blocks = <<>> THEN doc
    ELSE BlockNodes(AddEl(doc, 0, Head(blocks).tag, {}, NoAttrs, Head(blocks).text),
                    Tail(blocks))

InitSec ==
    /\ sec_pc = "input"
    /\ sec_blocks \in UNION {[1..n -> Blocks] : n \in 0..MaxBlocks}
    /\ sec_html = Html(BlockNodes(<<>>, sec_blocks), <<>>)
    /\ sec_output = None

\* job.requirements = self._extract_section_by_heading(soup, headings={...})
ExtractSectionByHeadingCall ==
    /\ sec_pc = "input"
    /\ sec_output' = ExtractSectionByHeading(sec_html.nodes, RequirementHeadings)
    /\ sec_pc' = "extracted"
    /\ UNCHANGED <<sec_blocks, sec_html>>
    /\ UNCHANGED <<pipeVars, cardVars, detailVars>>
    /\ KeepUnits("sec")

NextSec == ExtractSectionByHeadingCall

InitSecOnly ==
    InitSec /\ PipeIdle /\ CardsIdle /\ DetailIdle /\ DateIdle /\ SalaryIdle /\ WsIdle
    /\ SerIdle /\ SaveIdle /\ UrlIdle /\ CfgIdle

SpecSec == InitSecOnly /\ [][NextSec]_vars

(***************************************************************************)
(* Properties of the pipeline (specification Spec)                         *)
(***************************************************************************)
\* C1: the max_jobs cap is checked before every unit of work: while a fetch,
\* of a search page or of a detail page, is outstanding the accumulated
\* records are fewer than max_jobs, the accumulated records never exceed
\* max_jobs, and the returned list holds at most max_jobs records.
C1_CapCheckedBeforeEveryFetch ==
    /\ inflight # {} => Len(results) < max_jobs
    /\ Len(results) <= max_jobs
    /\ Len(ret) <= max_jobs

\* a run that the cap stopped in the middle of a page: cards were left over
C1_Witness ==
    /\ pc = "done"
    /\ Len(ret) = max_jobs
    /\ idx <= Len(page_jobs)

\* C2: a failed search fetch, a non-success result or a thrown fault, is never
\* fatal: the call does not end with an exception because of it.
C2_SearchFailureNeverFatal ==
    last_search \in {"fail", "throw"} => pc # "raised" /\ exc = "none"

\* how many elements of a sequence of texts are non-empty
CountTruthy(texts) == Cardinality({k \in 1..Len(texts) : Truthy(texts[k])})

\* a text with something other than white space in it
NonBlank(v) == Truthy(v) /\ Strip(v) # <<>>

C7_StrictlySequential ==
    /\ Cardinality(inflight) <= 1
    /\ \A f \in inflight :
          /\ f.page = page
          /\ f.kind = "search" =>
                /\ pc = "await_search"
                /\ idx > Len(page_jobs)
          /\ f.kind = "detail" =>
                /\ pc = "await_detail"
                /\ f.card = idx
                /\ Len(results) = page_start + idx - 1

\* the detail fetch of the second card of the second page is outstanding
C7_Witness ==
    \E f \in inflight : f.kind = "detail" /\ f.page = 2 /\ f.card = 2

\* C8: scrape_jobs with an event loop running raises RuntimeError at once, with
\* no fetch started; with no loop running it never raises RuntimeError, can
\* always take a step until it is over, and returns the dictionaries of the
\* listings that scrape_jobs_async returned.
C8_SyncEntryRefusesRunningLoop ==
    entry = "sync" =>
        /\ loop_running =>
              pc = "raised" /\ exc = "RuntimeError" /\ fetches = 0 /\ inflight = {}
        /\ ~loop_running =>
              /\ exc # "RuntimeError"
              /\ pc \notin {"done", "raised"} => ENABLED PipelineStep
              /\ pc = "done" => out = [k \in 1..Len(ret) |-> ToDict(ret[k])]

\* scrape_jobs was called inside a running loop and has raised
C8_Witness ==
    entry = "sync" /\ loop_running /\ pc = "raised" /\ exc = "RuntimeError"

\* scrape_jobs was called with no loop running and has returned records
C8_WitnessCompleted ==
    entry = "sync" /\ ~loop_running /\ pc = "done" /\ Len(out) = max_jobs /\ fetches > 1

(***************************************************************************)
(* Properties of card extraction (specification SpecCards)                 *)
(***************************************************************************)
\* whether card k of a page is a titled job card: the title lookup of the
\* code finds a title for it when it is alone on a page (on Seek an article
\* without marker is a card only of a page that has no marked card)
TitledJobCard(s, cards, k) ==
    /\ ParseJobCards(s, PageOf(s, <<cards[k]>>)) # <<>>
    /\ (s = "Seek" /\ cards[k].shape = "bare") =>
          \A j \in 1..Len(cards) : cards[j].shape = "bare"

\* C9: card extraction yields exactly one record per titled job card of the
\* page: the records are as many as the titled cards, whatever selectors
\* match a card or its container and however alike two cards are.
C9_OneRecordPerTitledCard ==
    cards_pc = "parsed" =>
        Len(job_listings) =
            Cardinality({k \in 1..Len(cards_input) :
                            TitledJobCard(cards_site, cards_input, k)})

\* the text of the first match of the first selector whose first match has
\* text, None when no selector has one
RECURSIVE FirstNonEmptyText(_, _, _, _)
FirstNonEmptyText(doc, element, selectors, sep) ==
    IF selectors = <<>> THEN None
    ELSE LET node == SelectOne(doc, element, Head(selectors))
             text == IF node = 0 THEN <<>> ELSE GetText(doc, node, sep)
         IN IF text # <<>> THEN text
            ELSE FirstNonEmptyText(doc, element, Tail(selectors), sep)

\* the title selectors of a site, in their order
TitleSelectors(s) ==
    IF s = "Seek" THEN <<AutoSel("", "jobTitle"), AutoSel("", "job-title")>>
    ELSE <<Css("h3", "base-search-card__title"), Css("h3", "job-search-card__title"),
           Css("a", "job-card-list__title")>>

\* C10: field extraction returns the first non-empty result of its ordered
\* selector list: the title found for every card element is the text of the
\* first title selector whose match has text, and None only when none has.
C10_CascadeFirstNonEmpty ==
    cards_pc = "parsed" =>
        LET cards == CardElements(cards_site, cards_html)
        IN /\ Len(card_titles) = Len(cards)
           /\ \A k \in 1..Len(cards) :
                 LET text == FirstNonEmptyText(cards_html.nodes, cards[k],
                                 TitleSelectors(cards_site),
                                 IF cards_site = "Seek" THEN <<>> ELSE <<SP>>)
                 IN card_titles[k] = IF cards_site = "Seek" \/ text = None THEN text
                                     ELSE CleanText(text)

(***************************************************************************)
(* Properties of detail enrichment (specification SpecDetail)              *)
(***************************************************************************)
\* the detail page was parsed: enrichment ran on markup
Enriched == detail_pc = "enriched" /\ ~detail_html.empty

\* the name of the hiring organization of the page's structured data
SchemaCompany(d) ==
    IF d.schema # NoSchema /\ d.schema.hiringOrganization.present
    THEN d.schema.hiringOrganization.name ELSE None

\* C3: a company populated from the search card is not overwritten by the
\* company that the detail page's selectors find: with no structured-data
\* company on the page, the company after enrichment is the card's.
C3_CardCompanyNotOverwrittenByCss ==
    (Enriched /\ Truthy(card_job.company) /\ ~Truthy(SchemaCompany(detail_input))) =>
        detail_job.company = card_job.company

\* C4: when the structured data of the detail page has a non-empty title,
\* company or description, the field after enrichment is that value, also
\* when the card had populated it.
C4_StructuredDataOverrides ==
    (Enriched /\ detail_site = "Seek" /\ detail_input.schema # NoSchema) =>
        LET schema == detail_input.schema
        IN /\ Truthy(schema.title) => detail_job.title = schema.title
           /\ Truthy(SchemaCompany(detail_input)) =>
                 detail_job.company = SchemaCompany(detail_input)
           /\ Truthy(schema.description) =>
                 detail_job.description =
                     NormalizeWhitespace(FragmentText(schema.description))

\* the fields outside the override-priority set
FillOnlyFields ==
    {"location", "work_type", "work_arrangement", "salary", "posted_at", "apply_url",
     "company_url", "company_profile_url"}

\* C5: outside title, company and description enrichment is fill-if-absent:
\* a field that was non-empty after card extraction is unchanged after it.
C5_FillIfAbsentOutsideOverrideSet ==
    detail_pc = "enriched" =>
        \A f \in FillOnlyFields :
            Truthy(card_job[f]) => detail_job[f] = card_job[f]

(***************************************************************************)
(* Properties of the date normaliser (specification SpecDates)             *)
(***************************************************************************)
\* the text "within the past <n> <unit>"
WithinThePast(n, unit) == <<"within", SP, "the", SP, "past", SP, n, SP, unit>>

\* C11: for every N >= 1 and unit among day, days, week, weeks the phrase
\* "within the past N <unit>" resolves to now minus half of N units.
C11_WithinThePastIsHalved ==
    date_pc = "normalized" =>
        \A n \in NumberAtoms \ {"0"}, unit \in DayUnits \cup WeekUnits :
            date_input = WithinThePast(n, unit) =>
                date_output =
                    IsoNowMinus((NumberOf(n) * (IF unit \in DayUnits THEN 86400 ELSE 604800))
                                \div 2)

\* whether a text, trimmed, is in an absolute format or holds a relative phrase
HasDatePhrase(raw) ==
    LET text == Strip(raw)
        normalized == Lower(text)
    IN \/ ParseAbsolute(text) # None
       \/ normalized \in {<<"new">>, <<"just", SP, "posted">>,
                          <<"past", SP, "24", SP, "hours">>}
       \/ HasAtom(normalized, "yesterday")
       \/ \E k \in 1..Len(normalized) : UnitMatchAt(normalized, k, AllUnits, TRUE)

\* whether a result is an ISO timestamp
IsTimestamp(v) ==
    /\ v # None
    /\ Len(v) = 3
    /\ v[1] = "now-" \/ (v[1] \in DateAtoms /\ v[3] \in {"+00:00", "+10:00"})

\* C12 as stated: for every input that matches no absolute format and no
\* relative phrase the result is the input trimmed, and a timestamp is
\* produced only when a format or phrase matched.
C12_UnmatchedTextIsTrimmed ==
    date_pc = "normalized" =>
        /\ ~HasDatePhrase(date_input) => date_output = Strip(date_input)
        /\ IsTimestamp(date_output) => HasDatePhrase(date_input)

\* C12, amended: an input that is not blank and matches no absolute format
\* and no relative phrase is returned trimmed; a blank input gives None, not
\* the empty text; a timestamp is produced only when a format or phrase matched.
C12_UnmatchedTextIsTrimmedOrNone ==
    date_pc = "normalized" =>
        /\ ~HasDatePhrase(date_input) =>
              date_output = IF Strip(date_input) = <<>> THEN None ELSE Strip(date_input)
        /\ IsTimestamp(date_output) => HasDatePhrase(date_input)

\* a text that is no date, with white space around it, came back trimmed
C12_Witness ==
    /\ date_pc = "normalized"
    /\ date_input = <<SP, "soon", TAB>>
    /\ date_output = <<"soon">>

\* the seconds of one unit, a month being 30 days and a year 365 days
UnitSeconds(unit) ==
    CASE unit \in MinuteUnits -> 60
      [] unit \in HourUnits -> 3600
      [] unit \in DayUnits -> 86400
      [] unit \in WeekUnits -> 7 * 86400
      [] unit \in MonthUnits -> 30 * 86400
      [] unit \in YearUnits -> 365 * 86400

\* C13: the phrase "<N> <unit>" gives now - N * unit, "new" and "just posted"
\* give now and "yesterday" gives now - 1 day.
C13_RelativePhraseIsNowMinusNUnits ==
    date_pc = "normalized" =>
        /\ \A n \in NumberAtoms, unit \in AllUnits :
              date_input = <<n, SP, unit>> =>
                  date_output = IsoNowMinus(NumberOf(n) * UnitSeconds(unit))
        /\ date_input \in {<<"new">>, <<"just", SP, "posted">>} =>
              date_output = IsoNowMinus(0)
        /\ date_input = <<"yesterday">> => date_output = IsoNowMinus(86400)


(***************************************************************************)
(* Properties of the salary formatter (specification SpecSalary)           *)
(***************************************************************************)
IsNumber(v) == v.kind \in {"int", "float"}

\* the unit the rendering ends with: the salary's own, else the value's
SalaryUnit(d) ==
    IF ~Truthy(d.unitText) /\ d.value.kind = "dict" THEN d.value.unitText ELSE d.unitText

SalaryCurrency(d) ==
    LET currency == Or(d.currency, d.currencyCode)
    IN IF Truthy(currency) THEN <<"(">> \o currency \o <<")">> ELSE None

\* C14: the salary formatter renders "<min> - <max> <unit> (<currency>)" whenever
\* the structured salary carries both a minimum and a maximum number (a minimum
\* of 0 included), renders the single number followed by unit and currency when
\* exactly one bound exists, and returns null for absent or empty input.
C14_SalaryRangeSingleOrNull ==
    salary_pc = "formatted" =>
        LET d == salary_input
            lo == d.value.minValue
            hi == d.value.maxValue
        IN /\ (d.kind = "dict" /\ d.value.kind = "dict" /\ IsNumber(lo) /\ IsNumber(hi)) =>
                  salary_output =
                      JoinParts(<<FormatSalaryNumber(lo) \o <<SP, RANGE_SEPARATOR, SP>>
                                      \o FormatSalaryNumber(hi),
                                  SalaryUnit(d), SalaryCurrency(d)>>)
           /\ (d.kind = "dict" /\ d.value.kind = "dict" /\ IsNumber(lo) /\ hi = NoValue) =>
                  salary_output =
                      JoinParts(<<FormatSalaryNumber(lo), SalaryUnit(d), SalaryCurrency(d)>>)
           /\ (d.kind = "dict" /\ d.value.kind = "dict" /\ lo = NoValue /\ IsNumber(hi)) =>
                  salary_output =
                      JoinParts(<<FormatSalaryNumber(hi), SalaryUnit(d), SalaryCurrency(d)>>)
           /\ (d = NoSalary \/ d = SalaryString(<<>>)) => salary_output = None


(***************************************************************************)
(* Properties of the whitespace normalisers (specification SpecWs)         *)
(***************************************************************************)
\* C15: every whitespace normaliser is idempotent: for every string x (tabs,
\* carriage returns, non-breaking spaces, blank lines and form feeds
\* included) normalize(normalize(x)) = normalize(x), for the single-line,
\* the multi-line and the description normaliser alike.
C15_NormalizersIdempotent ==
    ws_pc = "twice" => ws_again = ws_output

\* the description normaliser was applied twice to a string with a
\* non-breaking space next to a blank, and it changed the string
C15_Witness ==
    /\ ws_pc = "twice"
    /\ ws_fn = "_normalize_whitespace"
    /\ ws_input = <<"a", SP, NBSP, "a">>
    /\ ws_output = <<"a", SP, "a">>
    /\ ws_again = ws_output


(***************************************************************************)
(* Properties of serialisation (specification SpecSer)                     *)
(***************************************************************************)
RecordFields ==
    {"id", "title", "company", "company_url", "company_profile_url", "location",
     "work_type", "work_arrangement", "salary", "description", "posted_at",
     "apply_url", "job_url", "source"}

\* field-for-field equality of two records, added attributes included
SameRecord(a, b) ==
    /\ \A f \in RecordFields : a[f] = b[f]
    /\ DOMAIN a.extra = DOMAIN b.extra
    /\ DOMAIN a.extra # {} => a.extra = b.extra

\* C16: serialising a record with to_dict and reading the mapping back gives a
\* record equal to the original field for field, for every record, those with
\* absent fields and those carrying fields added by detail enrichment included:
\* the mapping determines the record, so two records with the same mapping are
\* the same record.
C16_MappingDeterminesRecord ==
    (Len(ser_dicts) = 2 /\ ser_dicts[1] = ser_dicts[2]) =>
        SameRecord(ser_jobs[1], ser_jobs[2])


(***************************************************************************)
(* Properties of save_results (specification SpecSave)                     *)
(***************************************************************************)
Supported(jobs) == \A i \in 1..Len(jobs) : jobs[i].kind \in {"JobListing", "dict"}

\* C17: save_results accepts any mix of typed records and plain mappings, and
\* for a sequence with an element of any other shape it raises to the caller
\* and leaves no state on disk: the output file is neither written nor
\* modified and nothing else is created on the filesystem by the call.
C17_BadElementLeavesNothingOnDisk ==
    save_pc = "saved" =>
        /\ Supported(save_jobs) => (save_result = "path" /\ fs.exists)
        /\ ~Supported(save_jobs) => (save_result = "TypeError" /\ fs = fs_before)


(***************************************************************************)
(* Properties of build_search_url (specification SpecUrl)                  *)
(***************************************************************************)
\* the query of url has the parameter key
HasParam(url, key) ==
    \E i \in 3..Len(url) - 1 : url[i - 1] \in {"?", "&"} /\ url[i] = key /\ url[i + 1] = "="

\* the query of url has the parameter key with the value
HasParamValue(url, key, value) ==
    \E i \in 3..Len(url) - 2 :
        /\ url[i - 1] \in {"?", "&"} /\ url[i] = key /\ url[i + 1] = "="
        /\ url[i + 2] = value
        /\ (i + 3 <= Len(url) => url[i + 3] = "&")

\* the configured recency filter is set and greater than 0
FilterPositive(s, config) ==
    IF s = "Seek" THEN config.date_filter \in {<<"7">>}
    ELSE config.time_filter_seconds # NoValue /\ config.time_filter_seconds.n > 0

PageParam(s) == IF s = "Seek" THEN "page" ELSE "start"
FilterParam(s) == IF s = "Seek" THEN "daterange" ELSE "f_TPR"

\* C18: build_search_url is a function of keywords, location, page and recency
\* filter: for page 1 the URL has no pagination parameter, for every page > 1
\* it has one (Seek: page=<page>; LinkedIn: start=(page-1)*25), and the
\* recency parameter is present exactly when the configured filter is set
\* and > 0.
C18_PaginationAndRecencyParameters ==
    url_pc = "built" =>
        /\ url_output = BuildSearchUrl(url_site, url_config, url_page)
        /\ url_page = 1 => ~HasParam(url_output, PageParam(url_site))
        /\ url_page > 1 =>
              HasParamValue(url_output, PageParam(url_site),
                            IF url_site = "Seek" THEN ToString(url_page)
                            ELSE ToString((url_page - 1) * 25))
        /\ HasParam(url_output, FilterParam(url_site)) <=> FilterPositive(url_site, url_config)


(***************************************************************************)
(* Properties of construction (specification SpecCfg)                      *)
(***************************************************************************)
\* the values that are no number: absent, empty and non-numeric
Unparsable == {NoValue, StrValue(""), StrValue("abc")}

\* C19: configuration never fails and is always in range: for every supplied
\* or environment-sourced value of max_jobs and max_pages (absent, empty,
\* zero, negative, non-numeric) construction raises no error and the resulting
\* max_jobs and max_pages are integers >= 1, unparsable values being replaced
\* by the defaults 20 and 1.
C19_ConstructionNeverFailsAndClamps ==
    cfg_pc = "constructed" =>
        /\ cfg_result.exc = "none"
        /\ cfg_result.max_jobs >= 1
        /\ cfg_result.max_pages >= 1
        /\ ValueOr(cfg_args.max_jobs, cfg_env.max_jobs) \in Unparsable =>
               cfg_result.max_jobs = 20
        /\ ValueOr(cfg_args.max_pages, cfg_env.max_pages) \in Unparsable =>
               cfg_result.max_pages = 1


(***************************************************************************)
(* Card extraction of empty markup (specification SpecCards)               *)
(***************************************************************************)
\* C20: for empty or null HTML, parse_job_cards of either scraper returns an
\* empty sequence and raises no error.
C20_EmptyHtmlGivesNoCards ==
    (cards_pc = "parsed" /\ cards_html.empty) => (job_listings = <<>> /\ card_titles = <<>>)

\* the LinkedIn scraper has parsed empty markup
C20_Witness ==
    /\ cards_pc = "parsed"
    /\ cards_site = "LinkedIn"
    /\ cards_html = EmptyHtml
    /\ job_listings = <<>>

\* the Seek scraper has parsed empty markup
C20_WitnessSeek ==
    /\ cards_pc = "parsed"
    /\ cards_site = "Seek"
    /\ cards_html = EmptyHtml
    /\ job_listings = <<>>


(***************************************************************************)
(* Properties of enrichment inside the pipeline (specification Spec)       *)
(***************************************************************************)
\* the detail fetch that ends in this step throws, or returns without
\* success, or returns empty markup
DetailYieldsNothing ==
    /\ pc = "await_detail"
    /\ \/ last_detail' \in {"throw", "fail"}
       \/ last_detail' = "ok" /\ detail_page'.empty

\* C21: when the detail fetch of a record throws, returns non-success or
\* returns empty HTML, enrichment is a no-op: the record is appended to the
\* results with every field as card extraction produced it, and the run goes
\* on to the next card.
C21_FailedEnrichmentIsNoOp ==
    [][DetailYieldsNothing =>
          /\ results' = Append(results, page_jobs[idx])
          /\ pc' = "card_loop"
          /\ idx' = idx + 1
          /\ exc' = "none"
          /\ page_jobs' = page_jobs]_vars

\* the last fetch started was the detail fetch of the card before idx
LastFetchWasDetailOfPreviousCard ==
    /\ fetch_log # <<>>
    /\ fetch_log[Len(fetch_log)] = [kind |-> "detail", page |-> page, card |-> idx - 1]

\* a detail fetch returned empty markup and the card's record was appended as
\* it was
C21_Witness ==
    /\ pc = "card_loop"
    /\ LastFetchWasDetailOfPreviousCard
    /\ last_detail = "ok" /\ detail_page.empty
    /\ results # <<>>
    /\ results[Len(results)] = page_jobs[idx - 1]

\* a detail fetch threw and the run went on to a later fetch
C21_WitnessThrow ==
    /\ last_detail = "throw"
    /\ exc = "none"
    /\ pc = "await_search"
    /\ results # <<>>


(***************************************************************************)
(* Properties of section extraction (specification SpecSec)                *)
(***************************************************************************)
IsHeading(b) == b.tag \in {"h2", "h3", "h4"}

\* the prominence of a heading: h2 is above h3, h3 above h4
Rank(b) == CASE b.tag = "h2" -> 2 [] b.tag = "h3" -> 3 [] OTHER -> 4

\* the heading's text, lower-cased, is one of the keywords
MatchesKeyword(b) == IsHeading(b) /\ Lower(b.text) \in RequirementHeadings

\* the position of the first matching heading of the page, 0 for none
FirstMatch(blocks) ==
    LET ms == {i \in 1..Len(blocks) : MatchesKeyword(blocks[i])}
    IN IF ms = {} THEN 0 ELSE CHOOSE i \in ms : \A j \in ms : i <= j

\* block j ends the section of heading i: a heading of equal or higher
\* prominence
Ends(blocks, i, j) == IsHeading(blocks[j]) /\ Rank(blocks[j]) <= Rank(blocks[i])

\* block j lies in the section of heading i
InSection(blocks, i, j) ==
    /\ i < j /\ j <= Len(blocks)
    /\ \A k \in (i + 1)..j : ~Ends(blocks, i, k)

\* C22: section extraction considers only the first heading, in document
\* order, whose normalised text matches a keyword: when that heading's
\* section has no content the result is null, even when a later matching
\* heading has content.
C22_OnlyFirstMatchingHeading ==
    sec_pc = "extracted" =>
        LET i == FirstMatch(sec_blocks)
        IN (i # 0 /\ ~InSection(sec_blocks, i, i + 1)) => sec_output = None

\* C23: section extraction collects every sibling after the matched heading up
\* to, and not including, the next heading of equal or higher prominence: a
\* following heading of lower prominence (an h4 after a matched h2) does not
\* end the section, and the siblings after it are still collected.
C23_SectionRunsToNextHeadingOfEqualOrHigherRank ==
    sec_pc = "extracted" =>
        LET i == FirstMatch(sec_blocks)
        IN i # 0 =>
              \A j \in 1..Len(sec_blocks) :
                  InSection(sec_blocks, i, j) =>
                      /\ sec_output # None
                      /\ \E k \in 1..Len(sec_output) : sec_output[k] = sec_blocks[j].text[1]


(***************************************************************************)
(* Properties of ID inference (specification SpecId)                       *)
(***************************************************************************)
\* the identifier patterns of a site, in their order: what precedes the
\* group and the characters of the group
IdPatterns(s) ==
    IF s = "Seek" THEN <<[prefix |-> "/job/", class |-> WordAtoms]>>
    ELSE <<[prefix |-> "/jobs/view/", class |-> DigitAtoms],
           [prefix |-> "currentJobId=", class |-> DigitAtoms],
           [prefix |-> "jobId=", class |-> DigitAtoms]>>

\* the group of the first pattern, in order, that matches the URL; None for no
\* URL and for no match
FirstCapture(s, url) ==
    LET ps == IdPatterns(s)
        ks == {k \in 1..Len(ps) : SearchAfter(url, ps[k].prefix, ps[k].class) # None}
    IN IF ~Truthy(url) \/ ks = {} THEN None
       ELSE LET k == CHOOSE k \in ks : \A m \in ks : k <= m
            IN SearchAfter(url, ps[k].prefix, ps[k].class)

\* the id the detail page itself carries (Seek: its structured data)
PageId(s, html) ==
    IF s = "Seek" THEN ExtractJobSchema(html.scripts).identifier ELSE None

C24_WitnessSeek ==
    /\ detail_pc = "enriched"
    /\ detail_site = "Seek"
    /\ ~detail_html.empty
    /\ card_job.id = None
    /\ detail_job.id = <<"dev-9">>


(***************************************************************************)
(* Properties of the whole run (specifications LiveSpec and Spec)          *)
(***************************************************************************)
\* the fetches of one kind that were started
Started(kind) == {k \in 1..Len(fetch_log) : fetch_log[k].kind = kind}

FetchBounds ==
    /\ Cardinality(Started("search")) <= max_pages
    /\ Cardinality(Started("detail")) <= max_jobs
    /\ \A i, j \in Started("search") : fetch_log[i].page = fetch_log[j].page => i = j
    /\ \A i, j \in Started("detail") :
          (fetch_log[i].page = fetch_log[j].page /\ fetch_log[i].card = fetch_log[j].card)
             => i = j

Terminated == pc \in {"done", "raised"}

\* C25: provided every fetch eventually returns or throws, scrape_jobs_async
\* terminates, having started at most max_pages search-page fetches (a failed
\* page takes its page slot and is not fetched again) and at most max_jobs
\* detail-page fetches, at most one for each record.
C25_TerminatesWithinFetchBounds ==
    /\ []FetchBounds
    /\ (entry # "none") ~> Terminated

\* a run that returned after a page with a detail fetch and a page whose fetch
\* failed
C25_Witness ==
    /\ pc = "done"
    /\ max_pages = 2
    /\ last_search = "fail"
    /\ Cardinality(Started("search")) = 2
    /\ Cardinality(Started("detail")) >= 1

\* the records are in page order and, within a page, in extraction order
PageOrder(recs) ==
    \A i, j \in 1..Len(recs) :
        i < j => \/ recs[i].page < recs[j].page
                 \/ recs[i].page = recs[j].page /\ recs[i].card < recs[j].card

\* C26: the list that scrape_jobs_async returns is a prefix of the
\* concatenation, in increasing page order, of the records extracted from each
\* successfully fetched page in extraction order (nothing reordered,
\* duplicated or dropped from the middle), and every record whose detail page
\* was fetched is in the returned list.
C26_ReturnedIsPrefixOfExtracted ==
    pc = "done" =>
        /\ PageOrder(extracted)
        /\ Len(ret) <= Len(extracted)
        /\ Len(ret) <= Len(origins)
        /\ \A k \in 1..Len(ret) :
              /\ origins[k] = <<extracted[k].page, extracted[k].card>>
              /\ ret[k].job_url = extracted[k].job_url
        /\ \A f \in Started("detail") :
              \E k \in 1..Len(ret) : origins[k] = <<fetch_log[f].page, fetch_log[f].card>>

\* a run that returned a record of each of two pages, one of them with its
\* detail page fetched, and left an extracted record of the second page out
C26_Witness ==
    /\ pc = "done"
    /\ Len(ret) = 2
    /\ origins[1][1] = 1 /\ origins[2][1] = 2
    /\ Len(extracted) > Len(ret)
    /\ Started("detail") # {}

====
